---- MODULE Spec2Model ----
(***************************************************************************)
(* Alert evaluation and lifecycle engine of scripts/performance-monitor.py *)
(* (classes AnomalyDetector and PerformanceMonitor).                       *)
(*                                                                         *)
(* Representation.  A datetime is an integer tick of the monitoring loop   *)
(* (the loop sleeps interval_seconds between two ticks).  A sample value   *)
(* is a whole number; the numeric fields of an Alert (value, threshold)    *)
(* are kept in hundredths, the precision the messages print ({:.2f}).      *)
(* A message is a sequence of one-character strings, so that Python's      *)
(* `metric_name in a.message` is a real substring search.  Only the fields *)
(* of SystemMetrics / ApplicationMetrics that the engine reads are kept.   *)
(***************************************************************************)
EXTENDS Integers, Sequences, FiniteSets, TLC

VARIABLES
    running,                 \* PerformanceMonitor.running
    pc,                      \* position of monitoring_loop / start_monitoring
    now,                     \* datetime.now(), in ticks
    system_metrics,          \* the tick's collected SystemMetrics
    app_metrics,             \* the tick's collected ApplicationMetrics
    system_metrics_history,  \* PerformanceMonitor.system_metrics_history
    app_metrics_history,     \* PerformanceMonitor.app_metrics_history
    data_history,            \* AnomalyDetector.data_history
    alert_history,           \* PerformanceMonitor.alert_history
    alert_file,              \* content of ALERT_HISTORY_FILE
    loaded,                  \* the log as load_alert_history left it at construction
    sent,                    \* calls of send_alert, in order
    report_file,             \* the final report stop_monitoring writes
    result,                  \* what the latest call returned, raised and logged
    env,                     \* self.config and the interpreter, fixed at start-up
    ticks                    \* ticks this behaviour has run (bounds the model)

vars == <<running, pc, now, system_metrics, app_metrics, system_metrics_history,
          app_metrics_history, data_history, alert_history, alert_file, sent,
          report_file, loaded, result, env, ticks>>

-----------------------------------------------------------------------------
(* Bounds of the model. *)

\* Ticks of the monitoring loop that a behaviour runs.
MaxTicks == 3

\* Ticks a warmed-up initial state has already run (all with the Quiet sample).
WarmTicks == 9

-----------------------------------------------------------------------------
(* DEFAULT_CONFIG and the literals of the code. *)

cpu_threshold == 80
memory_threshold == 85
disk_threshold == 90
response_time_threshold_ms == 1000
error_rate_threshold == 20
historical_data_points == 100
window_size == 50
\* AnomalyDetector.threshold = 2.5, as the fraction threshold_num / threshold_den
threshold_num == 5
threshold_den == 2
\* is_anomaly needs at least this many points
min_points == 10
\* detect_trend's default `points`, and the lookback generate_predictive_alerts passes
default_points == 10
predictive_points == 5
\* generate_predictive_alerts: history entries needed, and the predictive threshold
predictive_min_history == 10
predictive_threshold == 60
\* the periodic save: every save_every alerts
save_every == 10
anomaly_detection == TRUE
enable_predictive_alerts == TRUE

\* generate_performance_report / generate_recommendations
interval_seconds == 10
hours_24 == 24
seconds_per_hour == 3600
report_samples == 60
recent_samples == 30
cpu_warn == 70
cpu_crit == 85
memory_warn == 80
memory_crit == 90
response_warn == 500
response_crit == 1000
error_warn == 5
error_crit == 15
cpu_recommend == 80
memory_recommend == 85
spike_percent == 90
spike_count == 5
response_recommend == 1000
error_recommend == 10
alert_recommend == 20

\* Optional[datetime] = None
None == -1

\* float('inf'), above every finite value of the model, and the nan that
\* arithmetic on it gives
Inf == 1000000
NaN == -2

-----------------------------------------------------------------------------
(* Strings as character sequences. *)

Chars(s) ==
    CASE s = "CPU Usage" ->
           <<"C", "P", "U", " ", "U", "s", "a", "g", "e">>
      [] s = "Memory Usage" ->
           <<"M", "e", "m", "o", "r", "y", " ", "U", "s", "a", "g", "e">>
      [] s = "Disk Usage" ->
           <<"D", "i", "s", "k", " ", "U", "s", "a", "g", "e">>
      [] s = "Response Time" ->
           <<"R", "e", "s", "p", "o", "n", "s", "e", " ", "T", "i", "m", "e">>
      [] s = "Error Rate" ->
           <<"E", "r", "r", "o", "r", " ", "R", "a", "t", "e">>
      [] s = "cpu_percent" ->
           <<"c", "p", "u", "_", "p", "e", "r", "c", "e", "n", "t">>
      [] s = "memory_percent" ->
           <<"m", "e", "m", "o", "r", "y", "_", "p", "e", "r", "c", "e", "n", "t">>
      [] s = "response_time_ms" ->
           <<"r", "e", "s", "p", "o", "n", "s", "e", "_", "t", "i", "m", "e", "_", "m", "s">>
      [] s = "error_rate" ->
           <<"e", "r", "r", "o", "r", "_", "r", "a", "t", "e">>
      [] s = "increasing" ->
           <<"i", "n", "c", "r", "e", "a", "s", "i", "n", "g">>
      [] s = "decreasing" ->
           <<"d", "e", "c", "r", "e", "a", "s", "i", "n", "g">>
      [] s = "stable" ->
           <<"s", "t", "a", "b", "l", "e">>
      [] s = "insufficient_data" ->
           <<"i", "n", "s", "u", "f", "f", "i", "c", "i", "e", "n", "t", "_", "d", "a", "t", "a">>
      [] s = " is " ->
           <<" ", "i", "s", " ">>
      [] s = "% (threshold: " ->
           <<"%", " ", "(", "t", "h", "r", "e", "s", "h", "o", "l", "d", ":", " ">>
      [] s = "%)" ->
           <<"%", ")">>
      [] s = "Anomaly detected in " ->
           <<"A", "n", "o", "m", "a", "l", "y", " ", "d", "e", "t", "e", "c", "t", "e", "d", " ", "i", "n", " ">>
      [] s = ": " ->
           <<":", " ">>
      [] s = " (z-score: " ->
           <<" ", "(", "z", "-", "s", "c", "o", "r", "e", ":", " ">>
      [] s = ", trend: " ->
           <<",", " ", "t", "r", "e", "n", "d", ":", " ">>
      [] s = ")" ->
           <<")">>
      [] s = "CPU usage trending upward: " ->
           <<"C", "P", "U", " ", "u", "s", "a", "g", "e", " ", "t", "r", "e", "n", "d", "i", "n", "g", " ", "u", "p", "w", "a", "r", "d", ":", " ">>
      [] s = "% (trend: " ->
           <<"%", " ", "(", "t", "r", "e", "n", "d", ":", " ">>
      [] s = "." ->
           <<".">>
      [] s = "inf" ->
           <<"i", "n", "f">>

DigitChar(d) == <<"0", "1", "2", "3", "4", "5", "6", "7", "8", "9">>[d + 1]

RECURSIVE Digits(_)
\* str(n) of a natural number
Digits(n) == IF n < 10 THEN <<DigitChar(n)>>
             ELSE Digits(n \div 10) \o <<DigitChar(n % 10)>>

\* A value in hundredths
Centi(v) == IF v = Inf THEN Inf ELSE 100 * v

\* f"{x:.2f}" of a non-negative number given in hundredths
Fmt2f(c) == IF c = Inf THEN Chars("inf")
            ELSE Digits(c \div 100) \o Chars(".")
                   \o <<DigitChar((c \div 10) % 10), DigitChar(c % 10)>>

\* str(x) of a configured number: "1000" for the int 1000, "80.0" for the float 80.0
PyStr(x) == IF x.is_int THEN Digits(x.v) ELSE Digits(x.v) \o Chars(".") \o <<"0">>

\* Python's `needle in hay` on strings
Contains(hay, needle) ==
    \E i \in 1..(Len(hay) - Len(needle) + 1) :
        SubSeq(hay, i, i + Len(needle) - 1) = needle

RECURSIVE SumSeq(_)
SumSeq(s) == IF s = <<>> THEN 0 ELSE s[1] + SumSeq(Tail(s))

\* The sequence holds an infinite value
NonFinite(s) == \E i \in 1..Len(s) : s[i] = Inf

\* The sum of floats that may be infinite
Total(s) == IF NonFinite(s) THEN Inf ELSE SumSeq(s)

\* s[-k:] for k >= 1
LastN(s, k) == IF Len(s) <= k THEN s ELSE SubSeq(s, Len(s) - k + 1, Len(s))

-----------------------------------------------------------------------------
(* class AnomalyDetector *)

\* Mutant of add_data_point: on overflow the first window_size points are kept
add_data_point_keeps_oldest(dh, metric_name, value) ==
    LET cur == IF metric_name \in DOMAIN dh THEN dh[metric_name] ELSE <<>>
        app == Append(cur, value)
        kept == IF Len(app) > window_size THEN SubSeq(app, 1, window_size) ELSE app
    IN  [m \in (DOMAIN dh) \cup {metric_name} |->
            IF m = metric_name THEN kept ELSE dh[m]]

\* data_history after add_data_point(metric_name, value)
add_data_point(dh, metric_name, value) ==
    LET cur == IF metric_name \in DOMAIN dh THEN dh[metric_name] ELSE <<>>
        app == Append(cur, value)
        kept == IF Len(app) > window_size THEN LastN(app, window_size) ELSE app
    IN  [m \in (DOMAIN dh) \cup {metric_name} |->
            IF m = metric_name THEN kept ELSE dh[m]]

RECURSIVE ScaledDiv(_, _, _)
\* quotient and remainder of a * 10^k by c, by long division
ScaledDiv(a, c, k) ==
    IF k = 0 THEN [q |-> a \div c, r |-> a % c]
    ELSE LET p == ScaledDiv(a, c, k - 1)
         IN  [q |-> 10 * p.q + (10 * p.r) \div c, r |-> (10 * p.r) % c]

RECURSIVE ISqrtIn(_, _, _)
ISqrtIn(n, lo, hi) ==
    IF lo = hi THEN lo
    ELSE LET mid == (lo + hi + 1) \div 2
         IN  IF mid * mid <= n THEN ISqrtIn(n, mid, hi) ELSE ISqrtIn(n, lo, mid - 1)

\* floor of the square root
ISqrt(n) == ISqrtIn(n, 0, IF n < 46340 THEN n ELSE 46340)

\* Sum of the squares of a sequence
SumSq(s) == SumSeq([i \in 1..Len(s) |-> s[i] * s[i]])

\* Mutant of is_anomaly: std_dev is not tested before the division
is_anomaly_unguarded(dh, metric_name, value) ==
    IF metric_name \notin DOMAIN dh \/ Len(dh[metric_name]) < min_points
    THEN [is_anomaly |-> FALSE, z_score |-> 0]
    ELSE LET history == dh[metric_name]
             n == Len(history)
             S == SumSeq(history)
             D == n * SumSq(history) - S * S
             dv == n * value - S
             A == (n - 1) * dv * dv
             C == n * D
         IN  IF D = 0
             THEN [is_anomaly |-> FALSE, z_score |-> 0, raised |-> "ZeroDivisionError"]
             ELSE [is_anomaly |-> threshold_den * threshold_den * A
                                    > threshold_num * threshold_num * C,
                   z_score |-> (ISqrt(ScaledDiv(4 * A, C, 4).q) + 1) \div 2]

\* Mutant of is_anomaly: two points are enough
is_anomaly_unwarmed(dh, metric_name, value) ==
    IF metric_name \notin DOMAIN dh \/ Len(dh[metric_name]) < 2
    THEN [is_anomaly |-> FALSE, z_score |-> 0]
    ELSE LET history == dh[metric_name]
             n == Len(history)
             S == SumSeq(history)
             D == n * SumSq(history) - S * S
             dv == n * value - S
             A == (n - 1) * dv * dv
             C == n * D
         IN  IF D = 0
             THEN [is_anomaly |-> FALSE, z_score |-> 0]
             ELSE [is_anomaly |-> threshold_den * threshold_den * A
                                    > threshold_num * threshold_num * C,
                   z_score |-> (ISqrt(ScaledDiv(4 * A, C, 4).q) + 1) \div 2]

(* is_anomaly(metric_name, value) -> (is_anomaly, z_score).  With n points of  *)
(* sum S and sum of squares Q: mean = S/n, stdev^2 = (n*Q - S*S) / (n*(n-1)),  *)
(* so z_score^2 = (n-1)*(n*value - S)^2 / (n*(n*Q - S*S)), computed exactly.   *)
(* z_score is returned in hundredths, rounded to the nearest.  Over a window  *)
(* that holds an infinite value the mean is infinite and statistics.stdev     *)
(* raises or returns nan, by the interpreter: `nonfinite` marks that case,    *)
(* and (False, nan) is what is returned if stdev returns.                     *)
is_anomaly(dh, metric_name, value) ==
    IF metric_name \notin DOMAIN dh \/ Len(dh[metric_name]) < min_points
    THEN [is_anomaly |-> FALSE, z_score |-> 0]
    ELSE IF NonFinite(dh[metric_name])
    THEN [is_anomaly |-> FALSE, z_score |-> NaN, nonfinite |-> TRUE]
    ELSE LET history == dh[metric_name]
             n == Len(history)
             S == SumSeq(history)
             D == n * SumSq(history) - S * S
             dv == n * value - S
             A == (n - 1) * dv * dv
             C == n * D
         IN  IF D = 0   \* std_dev == 0
             THEN [is_anomaly |-> FALSE, z_score |-> 0]
             ELSE [is_anomaly |-> threshold_den * threshold_den * A
                                    > threshold_num * threshold_num * C,
                   z_score |-> (ISqrt(ScaledDiv(4 * A, C, 4).q) + 1) \div 2]

\* Mutant of detect_trend: the deadband is open, a slope of exactly 0.1 or -0.1
\* is outside it
detect_trend_inclusive(dh, metric_name, points) ==
    IF metric_name \notin DOMAIN dh \/ Len(dh[metric_name]) < points
    THEN "insufficient_data"
    ELSE LET recent_data == LastN(dh[metric_name], points)
             n == Len(recent_data)
             sum_x == SumSeq([i \in 1..n |-> i - 1])
             sum_y == SumSeq(recent_data)
             sum_xy == SumSeq([i \in 1..n |-> (i - 1) * recent_data[i]])
             sum_x2 == SumSeq([i \in 1..n |-> (i - 1) * (i - 1)])
             num == n * sum_xy - sum_x * sum_y
             den == n * sum_x2 - sum_x * sum_x
         IN  IF den = 0 THEN "ZeroDivisionError"
             ELSE IF 10 * num >= den THEN "increasing"
             ELSE IF 10 * num <= -den THEN "decreasing"
             ELSE "stable"

(* detect_trend(metric_name, points): the sign of the least-squares slope of   *)
(* the last `points` values against a deadband of 0.1.  The denominator is 0   *)
(* for a single point, where Python raises ZeroDivisionError.                  *)
detect_trend(dh, metric_name, points) ==
    IF metric_name \notin DOMAIN dh \/ Len(dh[metric_name]) < points
    THEN "insufficient_data"
    ELSE LET recent_data == LastN(dh[metric_name], points)
             n == Len(recent_data)
             sum_x == SumSeq([i \in 1..n |-> i - 1])
             sum_y == SumSeq(recent_data)
             sum_xy == SumSeq([i \in 1..n |-> (i - 1) * recent_data[i]])
             sum_x2 == SumSeq([i \in 1..n |-> (i - 1) * (i - 1)])
             num == n * sum_xy - sum_x * sum_y
             den == n * sum_x2 - sum_x * sum_x
         IN  IF den = 0 THEN "ZeroDivisionError"
             ELSE IF 10 * num > den THEN "increasing"
             ELSE IF 10 * num < -den THEN "decreasing"
             ELSE "stable"

-----------------------------------------------------------------------------
(* class Alert, and the persisted form of the log *)

Alert(timestamp, severity, category, message, value, threshold) ==
    [timestamp |-> timestamp, severity |-> severity, category |-> category,
     message |-> message, value |-> value, threshold |-> threshold,
     duration_minutes |-> 0, resolved |-> FALSE, resolution_time |-> None]

\* datetime.isoformat(): the text of a tick
isoformat(t) == Digits(t)

DigitValue(ch) == CHOOSE d \in 0..9 : DigitChar(d) = ch

RECURSIVE fromisoformat(_)
\* datetime.fromisoformat(): the tick a text denotes
fromisoformat(s) ==
    IF Len(s) = 1 THEN DigitValue(s[1])
    ELSE 10 * fromisoformat(SubSeq(s, 1, Len(s) - 1)) + DigitValue(s[Len(s)])

\* JSON values of the resolution_time key
JsonNull == [json |-> "null", text |-> <<>>]
JsonString(s) == [json |-> "string", text |-> s]

\* One element of `data` in save_alert_history: asdict(alert) with the datetimes as text
alert_dict(alert) ==
    [timestamp |-> isoformat(alert.timestamp), severity |-> alert.severity,
     category |-> alert.category, message |-> alert.message, value |-> alert.value,
     threshold |-> alert.threshold, duration_minutes |-> alert.duration_minutes,
     resolved |-> alert.resolved,
     resolution_time |-> IF alert.resolution_time # None
                         THEN JsonString(isoformat(alert.resolution_time))
                         ELSE JsonNull]

\* Mutant of alert_from_dict: the resolution time is not read back
alert_from_dict_unstamped(d) ==
    [timestamp |-> fromisoformat(d.timestamp), severity |-> d.severity,
     category |-> d.category, message |-> d.message, value |-> d.value,
     threshold |-> d.threshold, duration_minutes |-> d.duration_minutes,
     resolved |-> d.resolved,
     resolution_time |-> None]

\* The Alert load_alert_history builds from one element of the file
alert_from_dict(d) ==
    [timestamp |-> fromisoformat(d.timestamp), severity |-> d.severity,
     category |-> d.category, message |-> d.message, value |-> d.value,
     threshold |-> d.threshold, duration_minutes |-> d.duration_minutes,
     resolved |-> d.resolved,
     resolution_time |-> IF d.resolution_time.json = "string" /\ d.resolution_time.text # <<>>
                         THEN fromisoformat(d.resolution_time.text)
                         ELSE None]

\* ALERT_HISTORY_FILE: absent, a JSON list, or cut short by a failed write
NoFile == [state |-> "absent", data |-> <<>>]
JsonFile(data) == [state |-> "json", data |-> data]
TruncatedFile == [state |-> "truncated", data |-> <<>>]

\* alert_history after load_alert_history, starting from the constructor's []
load_alert_history(file) ==
    IF file.state = "json"
    THEN [i \in 1..Len(file.data) |-> alert_from_dict(file.data[i])]
    ELSE <<>>

\* The file after save_alert_history, by how the write goes
save_alert_history(file, history, outcome) ==
    CASE outcome = "written" -> JsonFile([i \in 1..Len(history) |-> alert_dict(history[i])])
      [] outcome = "open_failed" -> file
      [] outcome = "write_failed" -> TruncatedFile

SaveOutcomes == {"written", "open_failed", "write_failed"}

\* Mutant of save_alert_history_logged: the error is swallowed
save_alert_history_silent(outcome) == <<>>

\* What save_alert_history hands to self.logger.error, by how the write goes
save_alert_history_logged(outcome) ==
    IF outcome = "written" THEN <<>> ELSE <<"Error saving alert history">>

\* The call of save_alert_history as its caller sees it: it returns in every case
save_alert_history_call(outcome) ==
    [call |-> "save_alert_history", outcome |-> outcome, raised |-> FALSE,
     logged |-> save_alert_history_logged(outcome)]

-----------------------------------------------------------------------------
(* class PerformanceMonitor: alert evaluation *)

\* A configured number with its Python type
PyFloat(v) == [v |-> v, is_int |-> FALSE]
PyInt(v) == [v |-> v, is_int |-> TRUE]

\* Mutant of send_slack_alert: no try/except around the delivery
send_slack_alert_unguarded(fails) == [logged |-> <<>>, raised |-> fails]

\* send_slack_alert(alert): the delivery is inside try/except Exception, a
\* failure is logged
send_slack_alert(fails) ==
    [logged |-> IF fails THEN <<"Failed to send Slack alert">> ELSE <<>>, raised |-> FALSE]

\* send_email_alert(alert): the same for the SMTP dialog
send_email_alert(fails) ==
    [logged |-> IF fails THEN <<"Failed to send email alert">> ELSE <<>>, raised |-> FALSE]

\* The channels of send_alert in the order it tries them; the Prometheus one
\* increments a counter of the process and delivers nothing
Channels == <<"slack", "email", "prometheus">>
Remote == {"slack", "email"}

channel_call(channel, failing) ==
    CASE channel = "slack" -> send_slack_alert("slack" \in failing)
      [] channel = "email" -> send_email_alert("email" \in failing)
      [] channel = "prometheus" -> [logged |-> <<>>, raised |-> FALSE]

RECURSIVE send_alert_from(_, _, _, _)
\* send_alert from its i-th channel on; acc holds the attempts, the errors
\* logged and whether an exception is on its way to the caller
send_alert_from(i, enabled, failing, acc) ==
    IF i > Len(Channels) THEN acc
    ELSE IF Channels[i] \notin enabled THEN send_alert_from(i + 1, enabled, failing, acc)
    ELSE LET out == channel_call(Channels[i], failing)
             acc1 == [attempts |-> Append(acc.attempts, Channels[i]),
                      logged |-> acc.logged \o out.logged,
                      raised |-> out.raised]
         IN  IF out.raised THEN acc1 ELSE send_alert_from(i + 1, enabled, failing, acc1)

\* send_alert(alert) with the channels `enabled` configured, of which `failing` fail
send_alert_channels(enabled, failing) ==
    send_alert_from(1, enabled, failing, [attempts |-> <<>>, logged |-> <<>>, raised |-> FALSE])

\* send_alert(alert): the dispatcher gets the alert; log_len is the length of
\* alert_history at the moment of the call
send_alert(st, alert) ==
    [st EXCEPT !.sent = Append(@, [alert |-> alert, log_len |-> Len(st.alert_history)])]

\* Mutant of matches: the message is not looked at
matches_category_only(a, metric_name, category) ==
    ~a.resolved /\ a.category = category

\* Mutant of matches: any threshold message of the category matches
matches_any_metric(a, metric_name, category) ==
    ~a.resolved /\ a.category = category /\ Contains(a.message, Chars(" is "))

\* not a.resolved and a.category == category and metric_name in a.message
matches(a, metric_name, category) ==
    ~a.resolved /\ a.category = category /\ Contains(a.message, Chars(metric_name))

\* Mutant of active_alerts: the message is compared for equality with the metric name
active_alerts_exact(history, metric_name, category) ==
    SelectSeq(history, LAMBDA a : /\ ~a.resolved
                                  /\ a.category = category
                                  /\ a.message = Chars(metric_name))

\* Mutant of active_alerts: resolved alerts count as active
active_alerts_resolved_too(history, metric_name, category) ==
    SelectSeq(history, LAMBDA a : /\ a.category = category
                                  /\ Contains(a.message, Chars(metric_name)))

\* active_alerts of check_threshold_alert
active_alerts(history, metric_name, category) ==
    SelectSeq(history, LAMBDA a : matches(a, metric_name, category))

\* Mutant of severity_of: >= for >
severity_of_inclusive(value, threshold) ==
    IF 10 * value >= 12 * threshold.v THEN "CRITICAL" ELSE "WARNING"

\* "CRITICAL" if value > threshold * 1.2 else "WARNING"
severity_of(value, threshold) ==
    IF 10 * value > 12 * threshold.v THEN "CRITICAL" ELSE "WARNING"

\* f"{metric_name} is {value:.2f}% (threshold: {threshold}%)"
threshold_message(metric_name, value, threshold) ==
    Chars(metric_name) \o Chars(" is ") \o Fmt2f(Centi(value))
        \o Chars("% (threshold: ") \o PyStr(threshold) \o Chars("%)")

\* Mutant of resolve_alerts: the loop stops after the first alert it resolves
resolve_alerts_first(history, metric_name, category, t) ==
    [i \in 1..Len(history) |->
        IF /\ matches(history[i], metric_name, category)
           /\ \A j \in 1..(i - 1) : ~matches(history[j], metric_name, category)
        THEN [history[i] EXCEPT !.resolved = TRUE, !.resolution_time = t]
        ELSE history[i]]

\* Mutant of resolve_alerts: the resolved alerts are dropped from the log
resolve_alerts_removing(history, metric_name, category, t) ==
    SelectSeq(history, LAMBDA a : ~matches(a, metric_name, category))

\* Mutant of resolve_alerts: `not alert.resolved` is not tested
resolve_alerts_again(history, metric_name, category, t) ==
    [i \in 1..Len(history) |->
        IF /\ history[i].category = category
           /\ Contains(history[i].message, Chars(metric_name))
        THEN [history[i] EXCEPT !.resolved = TRUE, !.resolution_time = t]
        ELSE history[i]]

\* Mutant of resolve_alerts: resolved is set, resolution_time is not
resolve_alerts_unstamped(history, metric_name, category, t) ==
    [i \in 1..Len(history) |->
        IF matches(history[i], metric_name, category)
        THEN [history[i] EXCEPT !.resolved = TRUE]
        ELSE history[i]]

\* the else branch of check_threshold_alert: resolve every active alert of the metric
resolve_alerts(history, metric_name, category, t) ==
    [i \in 1..Len(history) |->
        IF matches(history[i], metric_name, category)
        THEN [history[i] EXCEPT !.resolved = TRUE, !.resolution_time = t]
        ELSE history[i]]

\* Mutant of check_threshold_alert: value >= threshold for value > threshold
check_threshold_alert_inclusive(st, metric_name, value, threshold, category, t) ==
    IF value >= threshold.v
    THEN IF active_alerts(st.alert_history, metric_name, category) = <<>>
         THEN LET alert == Alert(t, severity_of(value, threshold), category,
                                 threshold_message(metric_name, value, threshold),
                                 Centi(value), 100 * threshold.v)
              IN  send_alert([st EXCEPT !.alert_history = Append(@, alert)], alert)
         ELSE st
    ELSE [st EXCEPT !.alert_history = resolve_alerts(@, metric_name, category, t)]

\* Mutant of check_threshold_alert: a CRITICAL sample over an open WARNING alert
\* opens a CRITICAL alert
check_threshold_alert_escalating(st, metric_name, value, threshold, category, t) ==
    IF value > threshold.v
    THEN LET active == active_alerts(st.alert_history, metric_name, category)
             severity == severity_of(value, threshold)
         IN  IF \/ active = <<>>
                \/ /\ severity = "CRITICAL"
                   /\ \A i \in 1..Len(active) : active[i].severity = "WARNING"
             THEN LET alert == Alert(t, severity, category,
                                     threshold_message(metric_name, value, threshold),
                                     Centi(value), 100 * threshold.v)
                  IN  send_alert([st EXCEPT !.alert_history = Append(@, alert)], alert)
             ELSE st
    ELSE [st EXCEPT !.alert_history = resolve_alerts(@, metric_name, category, t)]

\* check_threshold_alert(metric_name, value, threshold, category) at time t;
\* st holds alert_history and sent
check_threshold_alert(st, metric_name, value, threshold, category, t) ==
    IF value > threshold.v
    THEN IF active_alerts(st.alert_history, metric_name, category) = <<>>
         THEN LET alert == Alert(t, severity_of(value, threshold), category,
                                 threshold_message(metric_name, value, threshold),
                                 Centi(value), 100 * threshold.v)
              IN  send_alert([st EXCEPT !.alert_history = Append(@, alert)], alert)
         ELSE st
    ELSE [st EXCEPT !.alert_history = resolve_alerts(@, metric_name, category, t)]

\* f"Anomaly detected in {metric_name}: {value:.2f} (z-score: {z_score:.2f}, trend: {trend})"
anomaly_message(metric_name, value, z_score, trend) ==
    Chars("Anomaly detected in ") \o Chars(metric_name) \o Chars(": ")
        \o Fmt2f(100 * value) \o Chars(" (z-score: ") \o Fmt2f(z_score)
        \o Chars(", trend: ") \o Chars(trend) \o Chars(")")

\* metrics_to_check of detect_anomalies
metrics_to_check(sys, app) ==
    << <<"cpu_percent", sys.cpu_percent, "system">>,
       <<"memory_percent", sys.memory_percent, "system">>,
       <<"response_time_ms", app.response_time_ms, "application">>,
       <<"error_rate", app.error_rate, "application">> >>

\* st with an exception on its way to the caller
Raise(st, e) == [f \in DOMAIN st \cup {"raised"} |-> IF f = "raised" THEN e ELSE st[f]]
Raised(st) == "raised" \in DOMAIN st

\* Mutant of check_anomaly: the alert is appended and not sent
check_anomaly_unsent(st, metric_name, value, category, t) ==
    LET dh == add_data_point(st.data_history, metric_name, value)
        res == is_anomaly(dh, metric_name, value)
        st1 == [st EXCEPT !.data_history = dh]
    IN  IF res.is_anomaly
        THEN LET trend == detect_trend(dh, metric_name, default_points)
                 alert == Alert(t, "WARNING", category,
                                anomaly_message(metric_name, value, res.z_score, trend),
                                100 * value, res.z_score)
             IN  [st1 EXCEPT !.alert_history = Append(@, alert)]
        ELSE st1

\* Mutant of check_anomaly: the sample is evaluated against the window before
\* it is recorded
check_anomaly_evaluate_first(st, metric_name, value, category, t) ==
    LET dh == add_data_point(st.data_history, metric_name, value)
        res == is_anomaly(st.data_history, metric_name, value)
        st1 == [st EXCEPT !.data_history = dh]
    IN  IF res.is_anomaly
        THEN LET trend == detect_trend(dh, metric_name, default_points)
                 alert == Alert(t, "WARNING", category,
                                anomaly_message(metric_name, value, res.z_score, trend),
                                100 * value, res.z_score)
             IN  send_alert([st1 EXCEPT !.alert_history = Append(@, alert)], alert)
        ELSE st1

\* One iteration of the loop of detect_anomalies; st holds data_history,
\* alert_history, sent and env
check_anomaly(st, metric_name, value, category, t) ==
    LET dh == add_data_point(st.data_history, metric_name, value)
        res == is_anomaly(dh, metric_name, value)
        st1 == [st EXCEPT !.data_history = dh]
    IN  IF "nonfinite" \in DOMAIN res /\ st.env.stdev_raises
        THEN Raise(st1, "AttributeError")
        ELSE IF res.is_anomaly
        THEN LET trend == detect_trend(dh, metric_name, default_points)
                 alert == Alert(t, "WARNING", category,
                                anomaly_message(metric_name, value, res.z_score, trend),
                                100 * value, res.z_score)
             IN  send_alert([st1 EXCEPT !.alert_history = Append(@, alert)], alert)
        ELSE st1

RECURSIVE detect_anomalies_loop(_, _, _)
detect_anomalies_loop(st, todo, t) ==
    IF todo = <<>> \/ Raised(st) THEN st
    ELSE detect_anomalies_loop(
             check_anomaly(st, todo[1][1], todo[1][2], todo[1][3], t), Tail(todo), t)

\* detect_anomalies(system_metrics, app_metrics) at time t
detect_anomalies(st, sys, app, t) ==
    detect_anomalies_loop(st, metrics_to_check(sys, app), t)

\* x / n in hundredths, rounded to the nearest
MeanCenti(sum, n) == (200 * sum + n) \div (2 * n)

\* f"CPU usage trending upward: {avg_cpu:.2f}% (trend: {cpu_trend})"
predictive_message(avg_cpu, cpu_trend) ==
    Chars("CPU usage trending upward: ") \o Fmt2f(avg_cpu)
        \o Chars("% (trend: ") \o Chars(cpu_trend) \o Chars(")")

\* Mutant of generate_predictive_alerts: the trend of "cpu_percent", which
\* detect_anomalies records, is asked for
generate_predictive_alerts_recorded(st, smh, t) ==
    IF Len(smh) < predictive_min_history THEN st
    ELSE LET recent == LastN(smh, predictive_min_history)
             recent_cpu == [i \in 1..Len(recent) |-> recent[i].cpu_percent]
             cpu_trend == detect_trend(st.data_history, "cpu_percent", predictive_points)
             sum == SumSeq(recent_cpu)
         IN  IF cpu_trend = "increasing" /\ sum > predictive_threshold * Len(recent_cpu)
             THEN LET alert == Alert(t, "INFO", "predictive",
                                     predictive_message(MeanCenti(sum, Len(recent_cpu)),
                                                        cpu_trend),
                                     MeanCenti(sum, Len(recent_cpu)),
                                     100 * predictive_threshold)
                  IN  send_alert([st EXCEPT !.alert_history = Append(@, alert)], alert)
             ELSE st

\* generate_predictive_alerts() at time t; st holds data_history, alert_history, sent
generate_predictive_alerts(st, smh, t) ==
    IF Len(smh) < predictive_min_history THEN st
    ELSE LET recent == LastN(smh, predictive_min_history)
             recent_cpu == [i \in 1..Len(recent) |-> recent[i].cpu_percent]
             cpu_trend == detect_trend(st.data_history, "cpu_recent", predictive_points)
             sum == SumSeq(recent_cpu)
         IN  IF cpu_trend = "increasing" /\ sum > predictive_threshold * Len(recent_cpu)
             THEN LET alert == Alert(t, "INFO", "predictive",
                                     predictive_message(MeanCenti(sum, Len(recent_cpu)),
                                                        cpu_trend),
                                     MeanCenti(sum, Len(recent_cpu)),
                                     100 * predictive_threshold)
                  IN  send_alert([st EXCEPT !.alert_history = Append(@, alert)], alert)
             ELSE st

-----------------------------------------------------------------------------
(* class PerformanceMonitor: the report *)

\* round(sum / n, 2) in hundredths (ties to even)
RoundCenti(sum, n) ==
    LET q == (100 * sum) \div n
        r == (100 * sum) % n
    IN  IF sum = Inf THEN Inf
        ELSE IF 2 * r > n \/ (2 * r = n /\ q % 2 = 1) THEN q + 1 ELSE q

RECURSIVE MaxSeq(_)
MaxSeq(s) == IF Len(s) = 1 THEN s[1]
             ELSE LET m == MaxSeq(Tail(s)) IN IF s[1] > m THEN s[1] ELSE m

Field(history, f(_)) == [i \in 1..Len(history) |-> f(history[i])]

\* "good" if avg < warn else "warning" if avg < crit else "critical"
status(sum, n, warn, crit) ==
    IF sum < warn * n THEN "good" ELSE IF sum < crit * n THEN "warning" ELSE "critical"

\* Mutant of recent: the alerts are not filtered by their time
recent_unfiltered(history, t) == history

\* a.timestamp > now - timedelta(hours=24), with the time in ticks of interval_seconds
recent(history, t) ==
    SelectSeq(history, LAMBDA a : a.timestamp > t - (hours_24 * seconds_per_hour) \div interval_seconds)

\* generate_recommendations() at time t
generate_recommendations(smh, amh, history, t) ==
    LET recent_cpu == Field(LastN(smh, recent_samples), LAMBDA m : m.cpu_percent)
        recent_memory == Field(LastN(smh, recent_samples), LAMBDA m : m.memory_percent)
        recent_response_times == Field(LastN(amh, recent_samples), LAMBDA m : m.response_time_ms)
        recent_error_rates == Field(LastN(amh, recent_samples), LAMBDA m : m.error_rate)
        r1 == IF smh # <<>> /\ SumSeq(recent_cpu) > cpu_recommend * Len(recent_cpu)
              THEN <<"Consider scaling up CPU resources or optimizing CPU-intensive processes">>
              ELSE <<>>
        r2 == IF smh # <<>> /\ SumSeq(recent_memory) > memory_recommend * Len(recent_memory)
              THEN <<"Memory usage is high - consider increasing memory or optimizing memory usage">>
              ELSE <<>>
        r3 == IF smh # <<>>
                 /\ Len(SelectSeq(recent_cpu, LAMBDA c : c > spike_percent)) > spike_count
              THEN <<"Frequent CPU spikes detected - investigate background processes">>
              ELSE <<>>
        r4 == IF amh # <<>>
                 /\ Total(recent_response_times) > response_recommend * Len(recent_response_times)
              THEN <<"High response times detected - optimize database queries and API endpoints">>
              ELSE <<>>
        r5 == IF amh # <<>>
                 /\ SumSeq(recent_error_rates) > error_recommend * Len(recent_error_rates)
              THEN <<"High error rate detected - review application logs and fix critical issues">>
              ELSE <<>>
        r6 == IF Len(recent(history, t)) > alert_recommend
              THEN <<"High alert frequency - review monitoring thresholds and system stability">>
              ELSE <<>>
        recommendations == r1 \o r2 \o r3 \o r4 \o r5 \o r6
    IN  IF recommendations = <<>>
        THEN <<"System performance is within normal parameters">>
        ELSE recommendations

\* generate_performance_report() at time t; the averages and peaks in hundredths
generate_performance_report(smh, amh, history, t) ==
    LET cpu == Field(LastN(smh, report_samples), LAMBDA m : m.cpu_percent)
        memory == Field(LastN(smh, report_samples), LAMBDA m : m.memory_percent)
        response == Field(LastN(amh, report_samples), LAMBDA m : m.response_time_ms)
        errors == Field(LastN(amh, report_samples), LAMBDA m : m.error_rate)
        ns == IF smh = <<>> THEN 1 ELSE Len(cpu)
        na == IF amh = <<>> THEN 1 ELSE Len(response)
        recent_alerts == recent(history, t)
    IN  [generated_at |-> isoformat(t),
         monitoring_period_hours |-> hours_24,
         cpu |-> [average_percent |-> RoundCenti(SumSeq(cpu), ns),
                  peak_percent |-> IF smh = <<>> THEN 0 ELSE 100 * MaxSeq(cpu),
                  status |-> status(SumSeq(cpu), ns, cpu_warn, cpu_crit)],
         memory |-> [average_percent |-> RoundCenti(SumSeq(memory), ns),
                     peak_percent |-> IF smh = <<>> THEN 0 ELSE 100 * MaxSeq(memory),
                     status |-> status(SumSeq(memory), ns, memory_warn, memory_crit)],
         response_time |-> [average_ms |-> RoundCenti(Total(response), na),
                            status |-> status(Total(response), na, response_warn,
                                              response_crit)],
         error_rate |-> [average_percent |-> RoundCenti(SumSeq(errors), na),
                         status |-> status(SumSeq(errors), na, error_warn, error_crit)],
         alerts |-> [total_24h |-> Len(recent_alerts),
                     critical |-> Len(SelectSeq(recent_alerts,
                                                LAMBDA a : a.severity = "CRITICAL")),
                     warnings |-> Len(SelectSeq(recent_alerts,
                                                LAMBDA a : a.severity = "WARNING")),
                     resolved |-> Len(SelectSeq(recent_alerts, LAMBDA a : a.resolved))],
         recommendations |-> generate_recommendations(smh, amh, history, t)]

\* Mutant of self_after_report: the alerts of the last 24 hours are assigned
\* back to the log
self_after_report_filtering(smh, amh, dh, history, t) ==
    [system_metrics_history |-> smh, app_metrics_history |-> amh, data_history |-> dh,
     alert_history |-> recent(history, t)]

\* The monitor's fields after generate_performance_report() at time t: the
\* function and generate_recommendations work on slices and new lists and
\* assign no field
self_after_report(smh, amh, dh, history, t) ==
    [system_metrics_history |-> smh, app_metrics_history |-> amh, data_history |-> dh,
     alert_history |-> history]

-----------------------------------------------------------------------------
(* Inputs: what the sample source returns in a tick, what the file holds at  *)
(* start-up.                                                                 *)

\* A sample with every metric in range
Quiet == [cpu_percent |-> 79, memory_percent |-> 50, disk_usage_percent |-> 50,
          response_time_ms |-> 1000, error_rate |-> 1]

\* The samples of a tick: each metric at, above and well above its threshold
Samples ==
    {Quiet,
     [Quiet EXCEPT !.cpu_percent = 80],
     [Quiet EXCEPT !.cpu_percent = 90],
     [Quiet EXCEPT !.cpu_percent = 96],
     [Quiet EXCEPT !.cpu_percent = 97],
     [Quiet EXCEPT !.memory_percent = 90],
     [Quiet EXCEPT !.disk_usage_percent = 95],
     [Quiet EXCEPT !.response_time_ms = 1300, !.error_rate = 25],
     [Quiet EXCEPT !.cpu_percent = 97, !.memory_percent = 90, !.error_rate = 100]}

SystemMetrics(s, t) ==
    [timestamp |-> t, cpu_percent |-> s.cpu_percent, memory_percent |-> s.memory_percent,
     disk_usage_percent |-> s.disk_usage_percent]

ApplicationMetrics(s, t) ==
    [timestamp |-> t, response_time_ms |-> s.response_time_ms, error_rate |-> s.error_rate]

\* Alerts an earlier run of the program left in the file (their time is 0,
\* before this run's first tick)
OldCpuAlert(value) ==
    Alert(0, severity_of(value, PyFloat(cpu_threshold)), "system",
          threshold_message("CPU Usage", value, PyFloat(cpu_threshold)),
          100 * value, 100 * cpu_threshold)

InitialFiles ==
    {NoFile,
     JsonFile(<<alert_dict(OldCpuAlert(90))>>),
     JsonFile(<<alert_dict(OldCpuAlert(90)), alert_dict(OldCpuAlert(97))>>)}

\* The histories after WarmTicks ticks that all collected Quiet
WarmSeq(f(_)) == [i \in 1..WarmTicks |-> f(i)]

WarmData ==
    [m \in {"cpu_percent", "memory_percent", "response_time_ms", "error_rate"} |->
        WarmSeq(LAMBDA i : CASE m = "cpu_percent" -> Quiet.cpu_percent
                             [] m = "memory_percent" -> Quiet.memory_percent
                             [] m = "response_time_ms" -> Quiet.response_time_ms
                             [] m = "error_rate" -> Quiet.error_rate)]

-----------------------------------------------------------------------------
(* The state machine *)

\* No call has been made yet
NoCall == [call |-> "none"]

\* The notifications of DEFAULT_CONFIG: no Slack webhook, email, Prometheus and
\* InfluxDB disabled
DEFAULT_CONFIG ==
    [slack_webhook |-> FALSE, email |-> FALSE, prometheus |-> FALSE, influxdb |-> FALSE]

\* What the process is started with: its configuration, and whether the
\* interpreter's statistics.stdev raises on a non-finite value (it does in
\* CPython 3.11, earlier versions return nan)
DefaultEnv == [config |-> DEFAULT_CONFIG, stdev_raises |-> TRUE]

\* The constructor: PerformanceMonitor.__init__, then start_monitoring not yet called
InitFresh ==
    /\ \E file \in InitialFiles :
          /\ alert_file = file
          /\ alert_history = load_alert_history(file)
          /\ loaded = load_alert_history(file)
    /\ running = FALSE
    /\ pc = "start"
    /\ now = 1
    /\ ticks = 0
    /\ system_metrics = SystemMetrics(Quiet, 0)
    /\ app_metrics = ApplicationMetrics(Quiet, 0)
    /\ system_metrics_history = <<>>
    /\ app_metrics_history = <<>>
    /\ data_history = [m \in {} |-> <<>>]
    /\ sent = <<>>
    /\ report_file = <<>>
    /\ result = NoCall
    /\ env = DefaultEnv

\* A run started without a file, after WarmTicks ticks that all collected Quiet:
\* no alert was raised, and each tick saved the empty log
InitWarm ==
    /\ alert_file = JsonFile(<<>>)
    /\ alert_history = <<>>
    /\ loaded = <<>>
    /\ running = TRUE
    /\ pc = "collect"
    /\ now = WarmTicks + 1
    /\ ticks = 0
    /\ system_metrics = SystemMetrics(Quiet, WarmTicks)
    /\ app_metrics = ApplicationMetrics(Quiet, WarmTicks)
    /\ system_metrics_history = WarmSeq(LAMBDA i : SystemMetrics(Quiet, i))
    /\ app_metrics_history = WarmSeq(LAMBDA i : ApplicationMetrics(Quiet, i))
    /\ data_history = WarmData
    /\ sent = <<>>
    /\ report_file = <<>>
    /\ result = NoCall
    /\ env = DefaultEnv

Init == InitFresh \/ InitWarm

\* The part of the state the alert evaluation works on
State == [data_history |-> data_history, alert_history |-> alert_history, sent |-> sent,
          env |-> env]

Becomes(st) ==
    /\ data_history' = st.data_history
    /\ alert_history' = st.alert_history
    /\ sent' = st.sent

\* monitoring_loop: self.running = True
StartLoop ==
    /\ pc = "start"
    /\ running' = TRUE
    /\ pc' = "collect"
    /\ UNCHANGED <<env, result, loaded, now, ticks, system_metrics, app_metrics, system_metrics_history,
                   app_metrics_history, data_history, alert_history, alert_file, sent,
                   report_file>>

\* monitoring_loop: collect the metrics, store them in the histories, trim the histories
Collect ==
    /\ pc = "collect"
    /\ running
    /\ ticks < MaxTicks
    /\ \E s \in Samples :
          /\ system_metrics' = SystemMetrics(s, now)
          /\ app_metrics' = ApplicationMetrics(s, now)
    /\ system_metrics_history' =
          LastN(Append(system_metrics_history, system_metrics'), historical_data_points)
    /\ app_metrics_history' =
          LastN(Append(app_metrics_history, app_metrics'), historical_data_points)
    /\ ticks' = ticks + 1
    /\ pc' = "cpu"
    /\ UNCHANGED <<env, result, loaded, running, now, data_history, alert_history, alert_file, sent,
                   report_file>>

\* One call of check_threshold_alert in analyze_metrics
Check(at, metric_name, value, threshold, category, next) ==
    /\ pc = at
    /\ Becomes(check_threshold_alert(State, metric_name, value, threshold, category, now))
    /\ pc' = next
    /\ UNCHANGED <<env, result, loaded, running, now, ticks, system_metrics, app_metrics,
                   system_metrics_history, app_metrics_history, alert_file, report_file>>

CheckCpu ==
    Check("cpu", "CPU Usage", system_metrics.cpu_percent, PyFloat(cpu_threshold),
          "system", "memory")

CheckMemory ==
    Check("memory", "Memory Usage", system_metrics.memory_percent,
          PyFloat(memory_threshold), "system", "disk")

CheckDisk ==
    Check("disk", "Disk Usage", system_metrics.disk_usage_percent,
          PyFloat(disk_threshold), "system", "response")

CheckResponse ==
    Check("response", "Response Time", app_metrics.response_time_ms,
          PyInt(response_time_threshold_ms), "application", "error")

CheckError ==
    Check("error", "Error Rate", app_metrics.error_rate, PyFloat(error_rate_threshold),
          "application", "anomalies")

\* analyze_metrics: if anomaly_detection: detect_anomalies(...)
DetectAnomalies ==
    /\ pc = "anomalies"
    /\ LET st == IF anomaly_detection
                 THEN detect_anomalies(State, system_metrics, app_metrics, now)
                 ELSE State
       IN  /\ Becomes(st)
           /\ pc' = IF Raised(st) THEN "except" ELSE "predictive"
           /\ result' = IF Raised(st)
                        THEN [call |-> "analyze_metrics", raised |-> st.raised]
                        ELSE result
    /\ UNCHANGED <<env, loaded, running, now, ticks, system_metrics, app_metrics,
                   system_metrics_history, app_metrics_history, alert_file, report_file>>

\* analyze_metrics: if enable_predictive_alerts: generate_predictive_alerts()
PredictiveAlerts ==
    /\ pc = "predictive"
    /\ Becomes(IF enable_predictive_alerts
               THEN generate_predictive_alerts(State, system_metrics_history, now)
               ELSE State)
    /\ pc' = "save"
    /\ UNCHANGED <<env, result, loaded, running, now, ticks, system_metrics, app_metrics,
                   system_metrics_history, app_metrics_history, alert_file, report_file>>

\* monitoring_loop: the periodic save, then the sleep begins
PeriodicSave ==
    /\ pc = "save"
    /\ IF Len(alert_history) % save_every = 0
       THEN \E outcome \in SaveOutcomes :
               /\ alert_file' = save_alert_history(alert_file, alert_history, outcome)
               /\ result' = save_alert_history_call(outcome)
       ELSE UNCHANGED <<alert_file, result>>
    /\ pc' = "sleep"
    /\ UNCHANGED <<env, loaded, running, now, ticks, system_metrics, app_metrics,
                   system_metrics_history, app_metrics_history, data_history,
                   alert_history, sent, report_file>>

\* asyncio.sleep(interval) returns: the next iteration of `while self.running`
Wake ==
    /\ pc = "sleep"
    /\ now' = now + 1
    /\ pc' = "collect"
    /\ UNCHANGED <<env, result, loaded, running, ticks, system_metrics, app_metrics, system_metrics_history,
                   app_metrics_history, data_history, alert_history, alert_file, sent,
                   report_file>>

\* start_monitoring: KeyboardInterrupt during the sleep, then stop_monitoring:
\* the save, then the final report, whose write is not guarded
StopMonitoring ==
    /\ pc = "sleep"
    /\ running' = FALSE
    /\ \E outcome \in SaveOutcomes :
          /\ alert_file' = save_alert_history(alert_file, alert_history, outcome)
          /\ result' = save_alert_history_call(outcome)
    /\ \/ /\ report_file' = <<generate_performance_report(
                                 system_metrics_history, app_metrics_history,
                                 alert_history, now)>>
          /\ pc' = "stopped"
       \/ /\ report_file' = report_file
          /\ pc' = "failed"
    /\ UNCHANGED <<env, loaded, now, ticks, system_metrics, app_metrics, system_metrics_history,
                   app_metrics_history, data_history, alert_history, sent>>

Next ==
    \/ StartLoop
    \/ Collect
    \/ CheckCpu
    \/ CheckMemory
    \/ CheckDisk
    \/ CheckResponse
    \/ CheckError
    \/ DetectAnomalies
    \/ PredictiveAlerts
    \/ PeriodicSave
    \/ Wake
    \/ StopMonitoring

Spec == Init /\ [][Next]_vars

-----------------------------------------------------------------------------
(* Vocabulary of the properties *)

\* The metrics analyze_metrics checks against a threshold, in call order
ThresholdMetrics == {"CPU Usage", "Memory Usage", "Disk Usage", "Response Time", "Error Rate"}

Categories == {"system", "application", "predictive"}

CategoryOf(m) == IF m \in {"CPU Usage", "Memory Usage", "Disk Usage"}
                 THEN "system" ELSE "application"

ThresholdOf(m) ==
    CASE m = "CPU Usage" -> cpu_threshold
      [] m = "Memory Usage" -> memory_threshold
      [] m = "Disk Usage" -> disk_threshold
      [] m = "Response Time" -> response_time_threshold_ms
      [] m = "Error Rate" -> error_rate_threshold

\* Where the loop stands when it is about to check metric m
PcOf(m) ==
    CASE m = "CPU Usage" -> "cpu"
      [] m = "Memory Usage" -> "memory"
      [] m = "Disk Usage" -> "disk"
      [] m = "Response Time" -> "response"
      [] m = "Error Rate" -> "error"

\* The positions of a tick at which the tick's sample of m is not checked yet
Pending(m) ==
    CASE m = "CPU Usage" -> {"cpu"}
      [] m = "Memory Usage" -> {"cpu", "memory"}
      [] m = "Disk Usage" -> {"cpu", "memory", "disk"}
      [] m = "Response Time" -> {"cpu", "memory", "disk", "response"}
      [] m = "Error Rate" -> {"cpu", "memory", "disk", "response", "error"}

\* The value of metric m in the i-th collected sample
SampleOf(m, i) ==
    CASE m = "CPU Usage" -> system_metrics_history[i].cpu_percent
      [] m = "Memory Usage" -> system_metrics_history[i].memory_percent
      [] m = "Disk Usage" -> system_metrics_history[i].disk_usage_percent
      [] m = "Response Time" -> app_metrics_history[i].response_time_ms
      [] m = "Error Rate" -> app_metrics_history[i].error_rate

\* The time at which the i-th sample was collected and checked
TickOf(i) == system_metrics_history[i].timestamp

\* How many samples of m check_threshold_alert has processed
Processed(m) == IF pc \in Pending(m) THEN Len(system_metrics_history) - 1
                ELSE Len(system_metrics_history)

Breach(m, i) == SampleOf(m, i) > ThresholdOf(m)

\* Alert a is about (category c, metric m): the key check_threshold_alert matches on
About(a, c, m) == a.category = c /\ Contains(a.message, Chars(m))

\* The positions of the log that hold an alert about (c, m) / an unresolved one
AlertsAbout(h, c, m) == {i \in 1..Len(h) : About(h[i], c, m)}
UnresolvedAbout(h, c, m) == {i \in AlertsAbout(h, c, m) : ~h[i].resolved}

\* The log holds at most one unresolved alert per (category, metric) pair
Deduped(h) ==
    \A c \in Categories, m \in ThresholdMetrics : Cardinality(UnresolvedAbout(h, c, m)) <= 1

\* The step is the call of check_threshold_alert for metric m
CheckStep(m) == pc = PcOf(m) /\ pc' # pc

\* The value that call is given
Checked(m) == SampleOf(m, Len(system_metrics_history))

\* Samples s..e of m are a run of breaches that no breach precedes or (so far) follows
BreachRun(m, s, e) ==
    /\ s <= e
    /\ \A i \in s..e : Breach(m, i)
    /\ s > 1 => ~Breach(m, s - 1)
    /\ e < Processed(m) => ~Breach(m, e + 1)

-----------------------------------------------------------------------------
(* C1.  If the log load_alert_history produced holds at most one unresolved  *)
(* alert per (category, metric) pair, then in every reachable state the log  *)
(* holds at most one unresolved alert about every (category, metric) pair.   *)
C1_AtMostOneUnresolved == Deduped(loaded) => Deduped(alert_history)

\* Two breaching samples of the CPU in a row were checked, and one alert is open
C1_Witness ==
    /\ Deduped(loaded)
    /\ Processed("CPU Usage") >= 2
    /\ Breach("CPU Usage", Processed("CPU Usage"))
    /\ Breach("CPU Usage", Processed("CPU Usage") - 1)
    /\ Cardinality(UnresolvedAbout(alert_history, "system", "CPU Usage")) = 1

(* C2.  With an empty log at start-up: every run of k >= 1 consecutive       *)
(* breaching samples of a metric appended exactly one alert about it (the    *)
(* alerts about it stamped within the run are one), and the in-range sample  *)
(* that follows a run resolved exactly one alert about it.                   *)
C2_OneAlertOneResolution ==
    loaded = <<>> =>
        \A m \in ThresholdMetrics :
            \A s, e \in 1..Processed(m) :
                BreachRun(m, s, e) =>
                    /\ Cardinality({i \in AlertsAbout(alert_history, CategoryOf(m), m) :
                                       /\ alert_history[i].timestamp >= TickOf(s)
                                       /\ alert_history[i].timestamp <= TickOf(e)}) = 1
                    /\ e < Processed(m) =>
                          Cardinality({i \in AlertsAbout(alert_history, CategoryOf(m), m) :
                                          alert_history[i].resolution_time = TickOf(e + 1)}) = 1

\* Two breaches of the CPU and then a recovery were checked, from an empty log
C2_Witness ==
    /\ loaded = <<>>
    /\ Processed("CPU Usage") >= 3
    /\ BreachRun("CPU Usage", Processed("CPU Usage") - 2, Processed("CPU Usage") - 1)
    /\ Cardinality(AlertsAbout(alert_history, "system", "CPU Usage")) = 1
    /\ \A i \in AlertsAbout(alert_history, "system", "CPU Usage") :
          alert_history[i].resolved

\* C3, the call: a sample that is <= the threshold appends nothing and sends nothing
C3_InRangeStep ==
    \A m \in ThresholdMetrics :
        (CheckStep(m) /\ Checked(m) <= ThresholdOf(m)) =>
            /\ Len(alert_history') = Len(alert_history)
            /\ sent' = sent

\* C3, the log: a metric whose samples were all <= its threshold has no alert
\* opened by this run, and none was sent
C3_NeverOpened ==
    \A m \in ThresholdMetrics :
        (\A i \in 1..Processed(m) : ~Breach(m, i)) =>
            /\ \A i \in AlertsAbout(alert_history, CategoryOf(m), m) : i <= Len(loaded)
            /\ \A j \in 1..Len(sent) : ~About(sent[j].alert, CategoryOf(m), m)

(* C3.  A call of check_threshold_alert whose sample is <= the threshold     *)
(* never appends an alert and never dispatches one; a metric whose samples   *)
(* are all <= its threshold never has an alert opened.                       *)
C3_InRangeNeverOpens == [][C3_InRangeStep]_vars /\ []C3_NeverOpened

\* A sample equal to the CPU threshold was checked while other alerts were raised
C3_Witness ==
    /\ Processed("CPU Usage") >= 1
    /\ SampleOf("CPU Usage", Processed("CPU Usage")) = cpu_threshold
    /\ \A i \in 1..Processed("CPU Usage") : ~Breach("CPU Usage", i)
    /\ pc = "memory"
    /\ Len(alert_history) > Len(loaded)

\* C4, the call: after it no alert about (category, metric) is unresolved, and
\* each that was is resolved now
C4_ResolveStep ==
    \A m \in ThresholdMetrics :
        (CheckStep(m) /\ Checked(m) <= ThresholdOf(m)) =>
            /\ UnresolvedAbout(alert_history', CategoryOf(m), m) = {}
            /\ \A i \in UnresolvedAbout(alert_history, CategoryOf(m), m) :
                  /\ i <= Len(alert_history')
                  /\ alert_history'[i].resolved
                  /\ alert_history'[i].resolution_time = now

(* C4.  A call of check_threshold_alert with a sample <= the threshold       *)
(* leaves no unresolved alert about its (category, metric): every one that   *)
(* was unresolved, however many, is resolved with resolution_time = now.     *)
C4_InRangeResolvesAll == [][C4_ResolveStep]_vars

\* The in-range CPU sample of this tick resolved two alerts at once
C4_Witness ==
    /\ pc = "memory"
    /\ Cardinality({i \in AlertsAbout(alert_history, "system", "CPU Usage") :
                       /\ alert_history[i].resolved
                       /\ alert_history[i].resolution_time = now}) >= 2

\* The alerts this run opened about metric m
OpenedAbout(m) ==
    {i \in AlertsAbout(alert_history, CategoryOf(m), m) : i > Len(loaded)}

\* The sample of m collected at time t
SampleAt(m, t) ==
    SampleOf(m, CHOOSE k \in 1..Len(system_metrics_history) : TickOf(k) = t)

(* C5.  Every threshold alert this run opened is CRITICAL exactly when its   *)
(* sample is > 1.2 times the threshold (5 * value > 6 * threshold) and       *)
(* WARNING otherwise, so WARNING at exactly 1.2 times the threshold.         *)
C5_SeverityBoundary ==
    \A m \in ThresholdMetrics :
        \A i \in OpenedAbout(m) :
            alert_history[i].severity =
                IF 5 * SampleAt(m, alert_history[i].timestamp) > 6 * ThresholdOf(m)
                THEN "CRITICAL" ELSE "WARNING"

\* A WARNING was opened at exactly 1.2 times the threshold, and a CRITICAL above it
C5_Witness ==
    /\ \E i \in OpenedAbout("CPU Usage") :
          /\ 5 * SampleAt("CPU Usage", alert_history[i].timestamp) = 6 * cpu_threshold
          /\ alert_history[i].severity = "WARNING"
    /\ \E i \in OpenedAbout("CPU Usage") : alert_history[i].severity = "CRITICAL"

\* C6, the step: what the step appends to the log is what it sends, in order,
\* each alert sent when it is the last of the log; earlier sends stay; a
\* suppressed breach and an in-range sample send nothing
C6_SendStep ==
    /\ Len(sent') - Len(sent) = Len(alert_history') - Len(alert_history)
    /\ \A j \in 1..(Len(sent') - Len(sent)) :
          /\ sent'[Len(sent) + j].alert = alert_history'[Len(alert_history) + j]
          /\ sent'[Len(sent) + j].log_len = Len(alert_history) + j
    /\ \A j \in 1..Len(sent) : j <= Len(sent') /\ sent'[j] = sent[j]
    /\ \A m \in ThresholdMetrics :
          (/\ CheckStep(m)
           /\ \/ Checked(m) <= ThresholdOf(m)
              \/ UnresolvedAbout(alert_history, CategoryOf(m), m) # {})
              => sent' = sent

\* C6, the log: the alerts sent are the alerts this run appended, one send each
C6_SentOnce ==
    /\ Len(sent) = Len(alert_history) - Len(loaded)
    /\ \A j \in 1..Len(sent) : sent[j].log_len = Len(loaded) + j

(* C6.  Every alert the evaluation cycle appends to the log is passed to     *)
(* send_alert exactly once, right after its append; a breaching sample that  *)
(* dedup suppresses and an in-range sample send nothing.                     *)
C6_ForwardedOnce == [][C6_SendStep]_vars /\ []C6_SentOnce

\* An alert is one detect_anomalies appended
IsAnomalyAlert(a) ==
    /\ Len(a.message) >= Len(Chars("Anomaly detected in "))
    /\ SubSeq(a.message, 1, Len(Chars("Anomaly detected in "))) = Chars("Anomaly detected in ")

\* The anomaly alert is about metric m of metrics_to_check
AnomalyAbout(a, m) ==
    /\ IsAnomalyAlert(a)
    /\ Contains(a.message, Chars("Anomaly detected in ") \o Chars(m) \o Chars(": "))

\* A threshold alert and an anomaly alert were sent, and a second CPU breach was not
C6_Witness ==
    /\ \E j \in 1..Len(sent) : IsAnomalyAlert(sent[j].alert)
    /\ \E j \in 1..Len(sent) : About(sent[j].alert, "system", "CPU Usage")
    /\ Processed("CPU Usage") >= 2
    /\ Breach("CPU Usage", Processed("CPU Usage"))
    /\ Breach("CPU Usage", Processed("CPU Usage") - 1)
    /\ pc = "sleep"

(* C7.  An alert that detect_anomalies or generate_predictive_alerts         *)
(* appended is unresolved in every reachable state.                          *)
C7_AnomalyNeverResolved ==
    \A i \in (Len(loaded) + 1)..Len(alert_history) :
        (IsAnomalyAlert(alert_history[i]) \/ alert_history[i].category = "predictive") =>
            /\ ~alert_history[i].resolved
            /\ alert_history[i].resolution_time = None

\* An in-range CPU sample resolved a CPU threshold alert, after a CPU anomaly alert
C7_Witness ==
    /\ pc = "memory"
    /\ \E i \in 1..Len(alert_history) :
          /\ AnomalyAbout(alert_history[i], "cpu_percent")
          /\ alert_history[i].timestamp < now
          /\ ~alert_history[i].resolved
    /\ \E i \in AlertsAbout(alert_history, "system", "CPU Usage") :
          alert_history[i].resolution_time = now

AnomalyMetrics == {"cpu_percent", "memory_percent", "response_time_ms", "error_rate"}

(* C8.  Anomaly alerts are deduplicated like threshold alerts: no anomaly    *)
(* alert is appended for a metric while an unresolved anomaly alert for it   *)
(* is in the log, so the log never holds two unresolved anomaly alerts for   *)
(* one metric.                                                               *)
C8_AnomalyDeduped ==
    \A m \in AnomalyMetrics :
        Cardinality({i \in 1..Len(alert_history) :
                        /\ AnomalyAbout(alert_history[i], m)
                        /\ ~alert_history[i].resolved}) <= 1

\* What identifies an alert: every field but resolved and resolution_time
Identity(a) == <<a.timestamp, a.severity, a.category, a.message, a.value, a.threshold,
                 a.duration_minutes>>

\* C9, the step: the log is not shorter, and each alert keeps its place and identity
C9_AppendOnlyStep ==
    /\ Len(alert_history') >= Len(alert_history)
    /\ \A i \in 1..Len(alert_history) : Identity(alert_history'[i]) = Identity(alert_history[i])

(* C9.  The alert log is append-only: no step (an evaluation cycle, a save,  *)
(* the final report) removes an alert, reorders the alerts or shortens the   *)
(* log.                                                                      *)
C9_AppendOnly == [][C9_AppendOnlyStep]_vars

\* The final report was written over a log of three alerts, one of them resolved
C9_Witness ==
    /\ pc = "stopped"
    /\ report_file # <<>>
    /\ Len(alert_history) >= 3
    /\ \E i \in 1..Len(alert_history) : alert_history[i].resolved

\* C10, the step: a resolved alert is the same alert after the step
C10_ResolvedFrozenStep ==
    \A i \in 1..Len(alert_history) :
        alert_history[i].resolved =>
            /\ i <= Len(alert_history')
            /\ alert_history'[i] = alert_history[i]

(* C10.  Once an alert has resolved = true, no step changes any field of it. *)
C10_ResolvedFrozen == [][C10_ResolvedFrozenStep]_vars

\* A CPU alert resolved in an earlier tick met a later in-range CPU sample
C10_Witness ==
    /\ pc = "memory"
    /\ ~Breach("CPU Usage", Len(system_metrics_history))
    /\ \E i \in AlertsAbout(alert_history, "system", "CPU Usage") :
          /\ alert_history[i].resolved
          /\ alert_history[i].resolution_time < now

-----------------------------------------------------------------------------
(* The operations called on their own: the second specification applies one  *)
(* operation at a time to inputs drawn from bounded sets.  pc names the      *)
(* operation under call, result holds what the latest call returned.         *)

\* Calls that change the state, per behaviour of UnitSpec
MaxCalls == 3

Ramp(n) == [i \in 1..n |-> i]
Down(n) == [i \in 1..n |-> n + 1 - i]
Flat(n, c) == [i \in 1..n |-> c]
\* n values around 40, the two oldest different from the rest
Long(n) == <<38, 42>> \o Flat(n - 2, 40)

\* Histories of cpu_percent the detector can hold, by add_data_point calls so far
DetectorHistories ==
    {Ramp(1), Ramp(4), <<0, 0, 0, 1, 0>>, <<0, 1, 0, 0, 0>>, Ramp(8), Ramp(9),
     Flat(9, 40), Ramp(10), Down(10), Flat(10, 40), Flat(7, 7) \o <<6, 4, 1>>,
     Long(window_size - 1), Long(window_size)}

\* The values and lookbacks of the direct calls
UnitValues == {1, 40, 79}
UnitMetrics == {"cpu_percent", "memory_percent"}
Lookbacks == {1, 2, 5, 10}
UnitSamples ==
    {Quiet, [Quiet EXCEPT !.cpu_percent = 97],
     [Quiet EXCEPT !.response_time_ms = 1300, !.error_rate = 25]}

\* A monitor as constructed, with no file
UnitIdle ==
    /\ running = FALSE
    /\ now = 1
    /\ ticks = 0
    /\ system_metrics = SystemMetrics(Quiet, 0)
    /\ app_metrics = ApplicationMetrics(Quiet, 0)
    /\ report_file = <<>>
    /\ result = NoCall
    /\ env = DefaultEnv

\* An AnomalyDetector with nothing recorded, or with a history of cpu_percent
InitDetector ==
    /\ UnitIdle
    /\ pc = "detector"
    /\ \/ data_history = [m \in {} |-> <<>>]
       \/ \E h \in DetectorHistories : data_history = [m \in {"cpu_percent"} |-> h]
    /\ system_metrics_history = <<>>
    /\ app_metrics_history = <<>>
    /\ alert_history = <<>>
    /\ alert_file = NoFile
    /\ loaded = <<>>
    /\ sent = <<>>

\* anomaly_detector.add_data_point(metric_name, value)
AddDataPoint ==
    /\ pc = "detector"
    /\ ticks < MaxCalls
    /\ \E v \in UnitValues :
          /\ data_history' = add_data_point(data_history, "cpu_percent", v)
          /\ result' = [call |-> "add_data_point", metric_name |-> "cpu_percent",
                        value |-> v]
    /\ ticks' = ticks + 1
    /\ now' = now + 1
    /\ UNCHANGED <<env, loaded, running, pc, system_metrics, app_metrics,
                   system_metrics_history, app_metrics_history, alert_history,
                   alert_file, sent, report_file>>

\* anomaly_detector.is_anomaly(metric_name, value)
IsAnomaly ==
    /\ pc = "detector"
    /\ \E m \in UnitMetrics, v \in UnitValues :
          result' = [call |-> "is_anomaly", metric_name |-> m, value |-> v,
                     ret |-> is_anomaly(data_history, m, v)]
    /\ UNCHANGED <<env, loaded, running, pc, now, ticks, system_metrics, app_metrics,
                   system_metrics_history, app_metrics_history, data_history,
                   alert_history, alert_file, sent, report_file>>

\* anomaly_detector.detect_trend(metric_name, points)
DetectTrend ==
    /\ pc = "detector"
    /\ \E m \in UnitMetrics, points \in Lookbacks :
          result' = [call |-> "detect_trend", metric_name |-> m, points |-> points,
                     ret |-> detect_trend(data_history, m, points)]
    /\ UNCHANGED <<env, loaded, running, pc, now, ticks, system_metrics, app_metrics,
                   system_metrics_history, app_metrics_history, data_history,
                   alert_history, alert_file, sent, report_file>>

\* detect_anomalies(system_metrics, app_metrics) on a sample
DetectAnomaliesCall ==
    /\ pc = "detector"
    /\ ticks < MaxCalls
    /\ \E s \in UnitSamples :
          /\ system_metrics' = SystemMetrics(s, now)
          /\ app_metrics' = ApplicationMetrics(s, now)
          /\ Becomes(detect_anomalies(State, system_metrics', app_metrics', now))
    /\ result' = [call |-> "detect_anomalies"]
    /\ ticks' = ticks + 1
    /\ now' = now + 1
    /\ UNCHANGED <<env, loaded, running, pc, system_metrics_history, app_metrics_history,
                   alert_file, report_file>>

\* Ticks the loop has run when its histories are about to overflow
FullTicks == {historical_data_points - 1, historical_data_points}

\* The loop about to collect, after n ticks that all collected Quiet: no alert
\* was raised, each tick saved the empty log, the detector's windows are full
InitLoop ==
    \E n \in FullTicks :
        /\ pc = "collect"
        /\ running = TRUE
        /\ now = n + 1
        /\ ticks = 0
        /\ system_metrics = SystemMetrics(Quiet, n)
        /\ app_metrics = ApplicationMetrics(Quiet, n)
        /\ system_metrics_history = [i \in 1..n |-> SystemMetrics(Quiet, i)]
        /\ app_metrics_history = [i \in 1..n |-> ApplicationMetrics(Quiet, i)]
        /\ data_history =
              [m \in {"cpu_percent", "memory_percent", "response_time_ms", "error_rate"} |->
                  Flat(window_size, WarmData[m][1])]
        /\ alert_history = <<>>
        /\ alert_file = JsonFile(<<>>)
        /\ loaded = <<>>
        /\ sent = <<>>
        /\ report_file = <<>>
        /\ result = NoCall
        /\ env = DefaultEnv

\* Alerts of a log: open, resolved, resolved in a file that gave no resolution
\* time, and raised by detect_anomalies
UnitAlerts ==
    {OldCpuAlert(90),
     [OldCpuAlert(97) EXCEPT !.resolved = TRUE, !.resolution_time = 5],
     [OldCpuAlert(90) EXCEPT !.resolved = TRUE],
     Alert(3, "WARNING", "system", anomaly_message("cpu_percent", 97, 285, "stable"),
           9700, 285)}

\* Logs of up to two alerts
UnitLogs == {<<>>} \cup {<<a>> : a \in UnitAlerts}
               \cup {<<a, b>> : a \in UnitAlerts, b \in UnitAlerts}

\* A monitor holding a log, about to persist it; the file is absent or holds
\* what an earlier run wrote
InitPersist ==
    /\ UnitIdle
    /\ pc = "persist"
    /\ alert_history \in UnitLogs
    /\ alert_file \in {NoFile, JsonFile(<<alert_dict(OldCpuAlert(97))>>)}
    /\ loaded = <<>>
    /\ data_history = [m \in {} |-> <<>>]
    /\ system_metrics_history = <<>>
    /\ app_metrics_history = <<>>
    /\ sent = <<>>

\* save_alert_history()
SaveCall ==
    /\ pc = "persist"
    /\ \E outcome \in SaveOutcomes :
          /\ alert_file' = save_alert_history(alert_file, alert_history, outcome)
          /\ result' = save_alert_history_call(outcome)
    /\ pc' = "saved"
    /\ UNCHANGED <<env, loaded, running, now, ticks, system_metrics, app_metrics,
                   system_metrics_history, app_metrics_history, data_history,
                   alert_history, sent, report_file>>

\* The process ends and a new monitor is constructed: __init__ loads the file
Restart ==
    /\ pc = "saved"
    /\ alert_history' = load_alert_history(alert_file)
    /\ loaded' = load_alert_history(alert_file)
    /\ pc' = "restarted"
    /\ UNCHANGED <<env, result, running, now, ticks, system_metrics, app_metrics,
                   system_metrics_history, app_metrics_history, data_history,
                   alert_file, sent, report_file>>

\* The time of the report: the alerts stamped up to tick 360 are older than 24 hours
ReportTick == 9000

\* A CPU alert raised at tick t and resolved at the next
ResolvedCpuAlert(t) ==
    [OldCpuAlert(90) EXCEPT !.timestamp = t, !.resolved = TRUE, !.resolution_time = t + 1]

\* n alerts of the last ticks before the report
RecentAlerts(n) == [i \in 1..n |-> ResolvedCpuAlert(ReportTick - 100 + i)]

\* Logs a report is generated from: empty, an old and a recent alert, and
\* around the count of alerts that brings a recommendation
ReportLogs ==
    {<<>>, <<OldCpuAlert(97)>> \o RecentAlerts(1), RecentAlerts(alert_recommend),
     <<OldCpuAlert(97)>> \o RecentAlerts(alert_recommend),
     RecentAlerts(alert_recommend + 1)}

\* A monitor about to generate a report (the --report option, or a shutdown):
\* nothing collected yet, or the histories of a long quiet run
InitReport ==
    /\ pc = "report"
    /\ running = FALSE
    /\ now = ReportTick
    /\ ticks = 0
    /\ system_metrics = SystemMetrics(Quiet, 0)
    /\ app_metrics = ApplicationMetrics(Quiet, 0)
    /\ \/ /\ system_metrics_history = <<>>
          /\ app_metrics_history = <<>>
          /\ data_history = [m \in {} |-> <<>>]
       \/ /\ system_metrics_history =
                [i \in 1..historical_data_points |-> SystemMetrics(Quiet, ReportTick - 100 + i)]
          /\ app_metrics_history =
                [i \in 1..historical_data_points |->
                    ApplicationMetrics(Quiet, ReportTick - 100 + i)]
          /\ data_history =
                [m \in {"cpu_percent", "memory_percent", "response_time_ms", "error_rate"} |->
                    Flat(window_size, WarmData[m][1])]
    /\ alert_history \in ReportLogs
    /\ loaded = alert_history
    /\ alert_file = JsonFile([i \in 1..Len(alert_history) |-> alert_dict(alert_history[i])])
    /\ sent = <<>>
    /\ report_file = <<>>
    /\ result = NoCall
    /\ env = DefaultEnv

\* generate_performance_report()
ReportCall ==
    /\ pc = "report"
    /\ result' = [call |-> "generate_performance_report",
                  ret |-> generate_performance_report(
                              system_metrics_history, app_metrics_history,
                              alert_history, now)]
    /\ LET self == self_after_report(system_metrics_history, app_metrics_history,
                                     data_history, alert_history, now)
       IN  /\ system_metrics_history' = self.system_metrics_history
           /\ app_metrics_history' = self.app_metrics_history
           /\ data_history' = self.data_history
           /\ alert_history' = self.alert_history
    /\ pc' = "reported"
    /\ UNCHANGED <<env, loaded, running, now, ticks, system_metrics, app_metrics, alert_file,
                   sent, report_file>>

\* A monitor that has just appended an alert to its log and is about to send it
InitNotify ==
    /\ UnitIdle
    /\ pc = "notify"
    /\ \E a \in UnitAlerts : alert_history = <<a>>
    /\ alert_file = NoFile
    /\ loaded = <<>>
    /\ data_history = [m \in {} |-> <<>>]
    /\ system_metrics_history = <<>>
    /\ app_metrics_history = <<>>
    /\ sent = <<>>

\* send_alert(alert), under a configuration of the channels and with some of
\* the remote deliveries failing
SendAlertCall ==
    /\ pc = "notify"
    /\ \E enabled \in SUBSET {Channels[i] : i \in 1..Len(Channels)} :
          \E failing \in SUBSET (enabled \cap Remote) :
              result' = [call |-> "send_alert", alert |-> alert_history[Len(alert_history)],
                         enabled |-> enabled, failing |-> failing,
                         ret |-> send_alert_channels(enabled, failing)]
    /\ Becomes(send_alert(State, alert_history[Len(alert_history)]))
    /\ pc' = "notified"
    /\ UNCHANGED <<env, loaded, running, now, ticks, system_metrics, app_metrics,
                   system_metrics_history, app_metrics_history, alert_file, report_file>>

UnitInit == InitDetector \/ InitLoop \/ InitPersist \/ InitReport \/ InitNotify

UnitNext ==
    \/ AddDataPoint
    \/ IsAnomaly
    \/ DetectTrend
    \/ DetectAnomaliesCall
    \/ Collect
    \/ SaveCall
    \/ Restart
    \/ ReportCall
    \/ SendAlertCall

UnitSpec == UnitInit /\ [][UnitNext]_vars

-----------------------------------------------------------------------------
\* The points recorded for a metric (none for a metric never recorded)
Recorded(dh, m) == IF m \in DOMAIN dh THEN dh[m] ELSE <<>>

\* The step is a call of detect_anomalies made on its own
DetectAnomaliesStep == result'.call = "detect_anomalies" /\ ticks' = ticks + 1

\* is_anomaly called with fewer than 10 points recorded returned (False, 0.0)
C11_ColdReturnsFalse ==
    (result.call = "is_anomaly"
        /\ Len(Recorded(data_history, result.metric_name)) < min_points)
    => result.ret = [is_anomaly |-> FALSE, z_score |-> 0]

\* detect_anomalies appends no anomaly alert about a metric that has fewer than
\* 10 points once the sample is recorded
C11_ColdStep ==
    DetectAnomaliesStep =>
        \A m \in AnomalyMetrics :
            Len(Recorded(data_history', m)) < min_points =>
                \A i \in (Len(alert_history) + 1)..Len(alert_history') :
                    ~AnomalyAbout(alert_history'[i], m)

(* C11.  is_anomaly returns (False, 0.0) for every metric and value while     *)
(* fewer than 10 points are recorded for the metric (a metric never recorded *)
(* included), and detect_anomalies raises no anomaly alert about a metric    *)
(* until it has 10 recorded points.                                          *)
C11_NoAnomalyBeforeTenPoints == []C11_ColdReturnsFalse /\ [][C11_ColdStep]_vars

\* is_anomaly was asked about a value far from nine varied points
C11_Witness ==
    /\ result.call = "is_anomaly"
    /\ result.metric_name = "cpu_percent"
    /\ result.value = 79
    /\ Recorded(data_history, "cpu_percent") = Ramp(9)
    /\ result.ret.is_anomaly = FALSE

-----------------------------------------------------------------------------
\* Every value of the sequence is the same
AllEqual(h) == \A i \in 1..Len(h) : h[i] = h[1]

(* C12.  When the window recorded for the metric has zero standard deviation *)
(* (at least 10 points, all equal), is_anomaly returns is_anomaly = false    *)
(* and z_score = 0 for every value asked about, and raises nothing.          *)
C12_ZeroDeviation ==
    (result.call = "is_anomaly"
        /\ Len(Recorded(data_history, result.metric_name)) >= min_points
        /\ AllEqual(Recorded(data_history, result.metric_name)))
    => result.ret = [is_anomaly |-> FALSE, z_score |-> 0]

\* is_anomaly was asked about 79 after eleven points of 40
C12_Witness ==
    /\ result.call = "is_anomaly"
    /\ result.metric_name = "cpu_percent"
    /\ result.value = 79
    /\ Recorded(data_history, "cpu_percent") = Flat(11, 40)
    /\ result.ret.z_score = 0

-----------------------------------------------------------------------------
\* The trends detect_trend names when it has the points it was asked for
Trends == {"increasing", "decreasing", "stable"}

(* C13.  detect_trend is total: for every metric and every lookback >= 1 it  *)
(* returns "insufficient_data" exactly when fewer points than the lookback   *)
(* are recorded for the metric (none for an unknown metric), and otherwise   *)
(* one of increasing, decreasing, stable, without raising an error.          *)
C13_TrendTotal ==
    result.call = "detect_trend" =>
        IF Len(Recorded(data_history, result.metric_name)) < result.points
        THEN result.ret = "insufficient_data"
        ELSE result.ret \in Trends

-----------------------------------------------------------------------------
(* The least-squares slope of y over the indexes 0..n-1, from the deviations *)
(* of the indexes from their mean (n-1)/2: with u_i = 2*i - (n-1),           *)
(* slope = 2 * SlopeNum / SlopeDen.                                          *)
SlopeNum(y) == SumSeq([i \in 1..Len(y) |-> (2 * (i - 1) - (Len(y) - 1)) * y[i]])
SlopeDen(y) ==
    SumSeq([i \in 1..Len(y) |-> (2 * (i - 1) - (Len(y) - 1)) * (2 * (i - 1) - (Len(y) - 1))])

\* The class of the slope of y against the deadband of 0.1
SlopeClass(y) ==
    IF 20 * SlopeNum(y) > SlopeDen(y) THEN "increasing"
    ELSE IF 20 * SlopeNum(y) < -SlopeDen(y) THEN "decreasing"
    ELSE "stable"

-----------------------------------------------------------------------------
\* after is before with v added at the end, less the oldest entry if before was full
Fifo(before, after, v, capacity) ==
    after = IF Len(before) >= capacity THEN Tail(before) \o <<v>> ELSE before \o <<v>>

\* No history is longer than its capacity
C15_Capacity ==
    /\ \A m \in DOMAIN data_history : Len(data_history[m]) <= window_size
    /\ Len(system_metrics_history) <= historical_data_points
    /\ Len(app_metrics_history) <= historical_data_points

\* add_data_point, called on its own or by detect_anomalies, and the storing
\* and trimming of monitoring_loop, add at the end and evict the oldest
C15_FifoStep ==
    /\ (result'.call = "add_data_point" /\ ticks' = ticks + 1) =>
          Fifo(Recorded(data_history, result'.metric_name),
               data_history'[result'.metric_name], result'.value, window_size)
    /\ DetectAnomaliesStep =>
          \A i \in 1..Len(metrics_to_check(system_metrics', app_metrics')) :
              LET c == metrics_to_check(system_metrics', app_metrics')[i]
              IN  Fifo(Recorded(data_history, c[1]), data_history'[c[1]], c[2], window_size)
    /\ (pc = "collect" /\ pc' = "cpu") =>
          /\ Fifo(system_metrics_history, system_metrics_history', system_metrics',
                  historical_data_points)
          /\ Fifo(app_metrics_history, app_metrics_history', app_metrics',
                  historical_data_points)

(* C15.  Every bounded history keeps its capacity with FIFO eviction: a      *)
(* metric's anomaly history never has more than window_size (50) entries,    *)
(* system_metrics_history and app_metrics_history never have more than       *)
(* historical_data_points (100) once trimmed, and a new entry goes to the    *)
(* end, with the oldest entry dropped when the history was full and the      *)
(* other entries left in their order.                                        *)
C15_BoundedFifo == []C15_Capacity /\ [][C15_FifoStep]_vars

\* A point was added to a full anomaly history: the oldest point, 38, is gone
C15_Witness ==
    /\ result.call = "add_data_point"
    /\ result.value = 79
    /\ data_history["cpu_percent"] = Tail(Long(window_size)) \o <<79>>
    /\ Len(data_history["cpu_percent"]) = window_size

-----------------------------------------------------------------------------
\* A new monitor loads the file that the save of the log has just written
C16_RestartStep ==
    (pc = "saved" /\ pc' = "restarted" /\ result.outcome = "written") =>
        alert_history' = alert_history

(* C16.  Restart round trip: for every log, save_alert_history (its write    *)
(* done) followed by load_alert_history in a new monitor gives a log with    *)
(* the same alerts in the same order with equal fields, the resolved flags   *)
(* and resolution times included (None stays None).                          *)
C16_RoundTrip == [][C16_RestartStep]_vars

\* A log of a resolved alert with its resolution time and an open anomaly alert
\* was saved and loaded again
C16_Witness ==
    /\ pc = "restarted"
    /\ result.outcome = "written"
    /\ Len(alert_history) = 2
    /\ alert_history[1].resolved
    /\ alert_history[1].resolution_time = 5
    /\ IsAnomalyAlert(alert_history[2])
    /\ alert_history[2].resolution_time = None

-----------------------------------------------------------------------------
\* The step is a flush point of the loop: the periodic save is due
PeriodicFlush == pc = "save" /\ Len(alert_history) % save_every = 0

\* The step is the flush point of the shutdown
ShutdownFlush == pc = "sleep" /\ pc' \in {"stopped", "failed"}

\* What the monitor holds in memory
InMemory ==
    <<alert_history, system_metrics_history, app_metrics_history, data_history, sent>>

\* A flush point calls save_alert_history whatever the earlier saves did; when
\* the save fails, the memory is as before, the error is logged, nothing is
\* raised, the cycle goes on to its sleep and the shutdown to its report
C17_FlushStep ==
    (PeriodicFlush \/ ShutdownFlush) =>
        /\ result'.call = "save_alert_history"
        /\ alert_file' = save_alert_history(alert_file, alert_history, result'.outcome)
        /\ result'.outcome # "written" =>
              /\ InMemory' = InMemory
              /\ result'.logged = <<"Error saving alert history">>
              /\ result'.raised = FALSE
              /\ PeriodicFlush => pc' = "sleep"
              /\ (ShutdownFlush /\ pc' = "stopped") =>
                    report_file' = <<generate_performance_report(
                                        system_metrics_history', app_metrics_history',
                                        alert_history', now')>>

(* C17.  A failure of save_alert_history is not fatal and changes nothing in *)
(* memory: alert_history is as before, the error is logged, the cycle or the *)
(* shutdown that called it continues, and the next flush point calls the     *)
(* save again.                                                               *)
C17_SaveFailureNotFatal == [][C17_FlushStep]_vars

\* The save of the shutdown failed on a log that holds an alert, after a
\* periodic save had failed too; the report was generated
C17_Witness ==
    /\ pc = "stopped"
    /\ result.outcome = "open_failed"
    /\ alert_file = TruncatedFile
    /\ Len(alert_history) >= 1
    /\ report_file # <<>>

-----------------------------------------------------------------------------
\* A report is generated
ReportStep == pc = "report" /\ pc' = "reported"

(* C18.  Report generation is read-only: generate_performance_report, with   *)
(* generate_recommendations, leaves system_metrics_history,                  *)
(* app_metrics_history, the detector's history and alert_history (length,    *)
(* order and every alert's fields) as they were.                             *)
C18_ReportReadOnly == [][ReportStep => InMemory' = InMemory]_vars

\* A report was generated from full histories and a log with an alert older
\* than 24 hours, which is still in the log
C18_Witness ==
    /\ pc = "reported"
    /\ Len(system_metrics_history) = historical_data_points
    /\ Len(alert_history) = 2
    /\ alert_history[1].timestamp = 0
    /\ result.ret.alerts.total_24h = 1

-----------------------------------------------------------------------------
\* The default entry of the recommendations, and the entry of the alert count
NormalEntry == "System performance is within normal parameters"
FrequencyEntry == "High alert frequency - review monitoring thresholds and system stability"

\* The averages and the peaks of the report are 0
ZeroedReport(r) ==
    /\ r.cpu.average_percent = 0
    /\ r.cpu.peak_percent = 0
    /\ r.memory.average_percent = 0
    /\ r.memory.peak_percent = 0
    /\ r.response_time.average_ms = 0
    /\ r.error_rate.average_percent = 0

\* A report was generated while both metric histories were empty
EmptyHistoryReport ==
    /\ result.call = "generate_performance_report"
    /\ system_metrics_history = <<>>
    /\ app_metrics_history = <<>>

(* C19.  Whenever the metric histories are empty, whatever the alert log     *)
(* contains, the report has all averages and peaks equal to 0 and its        *)
(* recommendation list contains the default "within normal parameters"       *)
(* entry.                                                                    *)
C19_EmptyHistoryDefault ==
    EmptyHistoryReport =>
        /\ ZeroedReport(result.ret)
        /\ \E i \in 1..Len(result.ret.recommendations) :
              result.ret.recommendations[i] = NormalEntry

\* The alerts of the log stamped less than 24 hours before now
RecentCount ==
    Cardinality({i \in 1..Len(alert_history) :
                    (now - alert_history[i].timestamp) * interval_seconds
                        < hours_24 * seconds_per_hour})

(* C19, amended.  Whenever the metric histories are empty, the report has    *)
(* all averages and peaks equal to 0; its recommendation list is the default *)
(* entry alone when at most 20 alerts of the log are of the last 24 hours,   *)
(* and the high-alert-frequency entry alone when more than 20 are.           *)
C19_EmptyHistoryReport ==
    EmptyHistoryReport =>
        /\ ZeroedReport(result.ret)
        /\ result.ret.recommendations =
              IF RecentCount > alert_recommend
              THEN <<FrequencyEntry>> ELSE <<NormalEntry>>

\* A report from empty histories and a log of 21 alerts of the last 24 hours
C19_Witness ==
    /\ EmptyHistoryReport
    /\ RecentCount = alert_recommend + 1
    /\ result.ret.recommendations = <<FrequencyEntry>>

-----------------------------------------------------------------------------
(* C20.  Notification channel failures are isolated: for every alert given   *)
(* to send_alert and every set of enabled channels whose delivery fails,     *)
(* every enabled channel gets its delivery attempt, in the order of the      *)
(* code, send_alert returns normally, and the alert is in the log as raised. *)
C20_ChannelsIsolated ==
    pc = "notified" =>
        /\ result.ret.attempts = SelectSeq(Channels, LAMBDA c : c \in result.enabled)
        /\ result.ret.raised = FALSE
        /\ Len(result.ret.logged) = Cardinality(result.failing)
        /\ alert_history = <<result.alert>>
        /\ sent = <<[alert |-> result.alert, log_len |-> 1]>>

\* The Slack and the email deliveries failed, and the Prometheus counter was
\* still incremented
C20_Witness ==
    /\ pc = "notified"
    /\ result.failing = {"slack", "email"}
    /\ result.ret.attempts = Channels
    /\ result.ret.logged = <<"Failed to send Slack alert", "Failed to send email alert">>

-----------------------------------------------------------------------------
\* C29, the log: an alert is resolved exactly when it has a resolution time
C29_Consistent ==
    loaded = <<>> =>
        \A i \in 1..Len(alert_history) :
            alert_history[i].resolved <=> alert_history[i].resolution_time # None

\* C29, the step: the two fields of an alert change in the same step or not at all
C29_TogetherStep ==
    \A i \in 1..Len(alert_history) :
        i <= Len(alert_history') =>
            (alert_history'[i].resolved # alert_history[i].resolved
                <=> alert_history'[i].resolution_time # alert_history[i].resolution_time)

(* C29.  Starting from an empty log, in every reachable state every alert of *)
(* the log has resolved = true if and only if its resolution_time is set,    *)
(* and the two are set together in the one resolving step, never apart.      *)
C29_ResolvedIffStamped == []C29_Consistent /\ [][C29_TogetherStep]_vars

\* From an empty log: one alert was resolved in this tick, another is still open
C29_Witness ==
    /\ loaded = <<>>
    /\ \E i \in 1..Len(alert_history) :
          alert_history[i].resolved /\ alert_history[i].resolution_time = now
    /\ \E i \in 1..Len(alert_history) :
          ~alert_history[i].resolved /\ alert_history[i].resolution_time = None

-----------------------------------------------------------------------------
\* Alert a was opened by check_threshold_alert for the metric of display name m:
\* its message starts with the name
OpenedFor(a, m) ==
    /\ Len(a.message) >= Len(Chars(m) \o Chars(" is "))
    /\ SubSeq(a.message, 1, Len(Chars(m) \o Chars(" is "))) = Chars(m) \o Chars(" is ")

\* C28, the step of check_threshold_alert for metric m
C28_IndependentStep ==
    \A m \in ThresholdMetrics :
        CheckStep(m) =>
            /\ \A i \in 1..Len(alert_history) :
                  ~OpenedFor(alert_history[i], m) =>
                      /\ i <= Len(alert_history')
                      /\ alert_history'[i] = alert_history[i]
            /\ (/\ Checked(m) > ThresholdOf(m)
                /\ \A i \in 1..Len(alert_history) :
                      OpenedFor(alert_history[i], m) => alert_history[i].resolved)
               => /\ Len(alert_history') = Len(alert_history) + 1
                  /\ OpenedFor(alert_history'[Len(alert_history')], m)
                  /\ ~alert_history'[Len(alert_history')].resolved

(* C28.  The five threshold metrics are independent under the substring      *)
(* dedup key: a call of check_threshold_alert for metric m leaves every      *)
(* alert that was opened for another metric or by anomaly detection as it    *)
(* is, also in the same category, and no such alert keeps it from opening    *)
(* an alert for m.                                                           *)
C28_MetricsIndependent == [][C28_IndependentStep]_vars

\* The Memory check opened an alert while a CPU threshold alert and a CPU
\* anomaly alert of the same category were open
C28_Witness ==
    /\ pc = "disk"
    /\ \E i \in 1..Len(alert_history) :
          /\ OpenedFor(alert_history[i], "CPU Usage")
          /\ alert_history[i].category = "system"
          /\ alert_history[i].timestamp < now
          /\ ~alert_history[i].resolved
    /\ \E i \in 1..Len(alert_history) :
          /\ AnomalyAbout(alert_history[i], "cpu_percent")
          /\ alert_history[i].category = "system"
    /\ \E i \in 1..Len(alert_history) :
          /\ OpenedFor(alert_history[i], "Memory Usage")
          /\ alert_history[i].category = "system"
          /\ alert_history[i].timestamp = now

-----------------------------------------------------------------------------
\* The sample of m is above 1.2 times the threshold
Critical(m, i) == 10 * SampleOf(m, i) > 12 * ThresholdOf(m)

\* C27, the step: a critical sample that meets an open WARNING alert of the
\* metric changes neither the log nor what was dispatched
C27_NoEscalationStep ==
    \A m \in ThresholdMetrics :
        (/\ CheckStep(m)
         /\ Critical(m, Len(system_metrics_history))
         /\ \E i \in UnresolvedAbout(alert_history, CategoryOf(m), m) :
               alert_history[i].severity = "WARNING")
        => alert_history' = alert_history /\ sent' = sent

\* C27, the log: a CRITICAL alert of this run was opened by a sample that no
\* breach of the metric precedes (the first sample, or one after a recovery)
C27_CriticalAfterRecovery ==
    loaded = <<>> =>
        \A m \in ThresholdMetrics :
            \A i \in AlertsAbout(alert_history, CategoryOf(m), m) :
                alert_history[i].severity = "CRITICAL" =>
                    \E k \in 1..Len(system_metrics_history) :
                        /\ TickOf(k) = alert_history[i].timestamp
                        /\ Critical(m, k)
                        /\ k > 1 => ~Breach(m, k - 1)

(* C27.  The severity of an open threshold alert is fixed when it is opened: *)
(* while an unresolved WARNING alert of a metric exists, a sample above 1.2  *)
(* times the threshold neither changes that alert nor appends or dispatches  *)
(* a CRITICAL one; a CRITICAL alert appears only after a recovery and a new  *)
(* breach.                                                                   *)
C27_SeverityFixedAtOpen == [][C27_NoEscalationStep]_vars /\ []C27_CriticalAfterRecovery

\* A critical CPU sample was checked against a WARNING alert opened earlier,
\* which is still the last CPU alert and still a WARNING
C27_Witness ==
    /\ pc = "memory"
    /\ Critical("CPU Usage", Len(system_metrics_history))
    /\ \E i \in UnresolvedAbout(alert_history, "system", "CPU Usage") :
          /\ alert_history[i].severity = "WARNING"
          /\ alert_history[i].timestamp < now
    /\ \A i \in AlertsAbout(alert_history, "system", "CPU Usage") :
          alert_history[i].severity = "WARNING"

-----------------------------------------------------------------------------
\* The step is the call of generate_predictive_alerts
PredictiveStep == pc = "predictive" /\ pc' # pc

-----------------------------------------------------------------------------
\* The reference: with n points of sum S, the deviations n * h[i] - S have the
\* sum of squares n^2 * (n - 1) * stddev^2, so |v - mean| / stddev > 2.5 is
\* 4 * (n - 1) * (n * v - S)^2 > 25 * (that sum)
SumDevSq(h) ==
    SumSeq([i \in 1..Len(h) |-> (Len(h) * h[i] - SumSeq(h)) * (Len(h) * h[i] - SumSeq(h))])

RefAnomaly(h, v) ==
    threshold_den * threshold_den * (Len(h) - 1)
            * (Len(h) * v - SumSeq(h)) * (Len(h) * v - SumSeq(h))
        > threshold_num * threshold_num * SumDevSq(h)

\* C25, the verdict of is_anomaly over a window of 10 points or more that are
\* not all equal
C25_Verdict ==
    (result.call = "is_anomaly"
        /\ Len(Recorded(data_history, result.metric_name)) >= min_points
        /\ SumDevSq(Recorded(data_history, result.metric_name)) > 0)
    => (result.ret.is_anomaly
            <=> RefAnomaly(Recorded(data_history, result.metric_name), result.value))

\* C25, the call of detect_anomalies: each sample is in the window after the
\* call, and an anomaly alert about the metric is raised exactly when the
\* reference over that window says so
C25_RecordFirstStep ==
    DetectAnomaliesStep =>
        \A m \in AnomalyMetrics :
            LET v == CASE m = "cpu_percent" -> system_metrics'.cpu_percent
                       [] m = "memory_percent" -> system_metrics'.memory_percent
                       [] m = "response_time_ms" -> app_metrics'.response_time_ms
                       [] m = "error_rate" -> app_metrics'.error_rate
                h == Recorded(data_history', m)
            IN  /\ h = LastN(Append(Recorded(data_history, m), v), window_size)
                /\ (\E i \in (Len(alert_history) + 1)..Len(alert_history') :
                        AnomalyAbout(alert_history'[i], m))
                   <=> (Len(h) >= min_points /\ SumDevSq(h) > 0 /\ RefAnomaly(h, v))

(* C25.  detect_anomalies records each sample into the metric's window       *)
(* before it evaluates it, and the verdict is the reference over the         *)
(* resulting window, which holds the sample: with at least 10 points and a   *)
(* non-zero standard deviation, is_anomaly is true exactly when              *)
(* |value - mean| / stddev > 2.5, strictly.                                  *)
C25_RecordThenEvaluate == []C25_Verdict /\ [][C25_RecordFirstStep]_vars

\* detect_anomalies raised an anomaly alert for a sample that is the tenth
\* point of a window whose nine earlier points are all equal
C25_Witness ==
    /\ result.call = "detect_anomalies"
    /\ Len(Recorded(data_history, "cpu_percent")) = min_points
    /\ AllEqual(SubSeq(Recorded(data_history, "cpu_percent"), 1, min_points - 1))
    /\ \E i \in 1..Len(alert_history) :
          /\ AnomalyAbout(alert_history[i], "cpu_percent")
          /\ alert_history[i].timestamp = now - 1

-----------------------------------------------------------------------------
(* The monitoring loop with its failures: the third specification runs the   *)
(* loop on samples that may be infinite, with a collection that may raise,   *)
(* with the email channel enabled or not, and with the interrupt arriving at *)
(* any point of the cycle.                                                   *)

\* Ticks of the monitoring loop that a behaviour of LoopSpec runs
MaxCycles == 2

\* The samples of a tick: in range, a CPU breach, and a health probe that
\* could not connect (measure_response_time returns float('inf'), and
\* calculate_error_rate 100.0)
LoopSamples ==
    {Quiet,
     [Quiet EXCEPT !.cpu_percent = 90],
     [Quiet EXCEPT !.response_time_ms = Inf, !.error_rate = 100]}

\* The default configuration under either interpreter, and one with the Slack
\* and email channels enabled
LoopEnvs ==
    {DefaultEnv,
     [DefaultEnv EXCEPT !.stdev_raises = FALSE],
     [DefaultEnv EXCEPT !.config.slack_webhook = TRUE, !.config.email = TRUE]}

\* The loop about to run its first tick, or about to collect after WarmTicks
\* ticks that all collected Quiet
LoopInit ==
    /\ env \in LoopEnvs
    /\ alert_history = <<>>
    /\ loaded = <<>>
    /\ ticks = 0
    /\ sent = <<>>
    /\ report_file = <<>>
    /\ result = NoCall
    /\ \/ /\ alert_file = NoFile
          /\ running = FALSE
          /\ pc = "start"
          /\ now = 1
          /\ system_metrics = SystemMetrics(Quiet, 0)
          /\ app_metrics = ApplicationMetrics(Quiet, 0)
          /\ system_metrics_history = <<>>
          /\ app_metrics_history = <<>>
          /\ data_history = [m \in {} |-> <<>>]
       \/ /\ alert_file = JsonFile(<<>>)
          /\ running = TRUE
          /\ pc = "collect"
          /\ now = WarmTicks + 1
          /\ system_metrics = SystemMetrics(Quiet, WarmTicks)
          /\ app_metrics = ApplicationMetrics(Quiet, WarmTicks)
          /\ system_metrics_history = WarmSeq(LAMBDA i : SystemMetrics(Quiet, i))
          /\ app_metrics_history = WarmSeq(LAMBDA i : ApplicationMetrics(Quiet, i))
          /\ data_history = WarmData

\* monitoring_loop: the collection returned; the sample is stored
LoopCollect ==
    /\ pc = "collect"
    /\ running
    /\ ticks < MaxCycles
    /\ \E s \in LoopSamples :
          /\ system_metrics' = SystemMetrics(s, now)
          /\ app_metrics' = ApplicationMetrics(s, now)
    /\ system_metrics_history' =
          LastN(Append(system_metrics_history, system_metrics'), historical_data_points)
    /\ app_metrics_history' =
          LastN(Append(app_metrics_history, app_metrics'), historical_data_points)
    /\ ticks' = ticks + 1
    /\ pc' = "cpu"
    /\ UNCHANGED <<env, result, loaded, running, now, data_history, alert_history,
                   alert_file, sent, report_file>>

\* monitoring_loop: collect_system_metrics raised (a psutil call failed);
\* nothing was stored
CollectRaises ==
    /\ pc = "collect"
    /\ running
    /\ ticks < MaxCycles
    /\ ticks' = ticks + 1
    /\ pc' = "except"
    /\ result' = [call |-> "collect_system_metrics", raised |-> "OSError"]
    /\ UNCHANGED <<env, loaded, running, now, system_metrics, app_metrics,
                   system_metrics_history, app_metrics_history, data_history,
                   alert_history, alert_file, sent, report_file>>

\* Mutant of loop_except: the exception leaves monitoring_loop, and
\* start_monitoring's finally clause stops the monitor
loop_except_fatal(e) == [pc |-> "stop", logged |-> <<>>]

\* monitoring_loop: except Exception as e: the error is logged, then the sleep
loop_except(e) == [pc |-> "sleep", logged |-> <<"Error in monitoring loop">>]

Except ==
    /\ pc = "except"
    /\ pc' = loop_except(result.raised).pc
    /\ result' = [call |-> "monitoring_loop", at |-> "except",
                  logged |-> loop_except(result.raised).logged]
    /\ UNCHANGED <<env, loaded, running, now, ticks, system_metrics, app_metrics,
                   system_metrics_history, app_metrics_history, data_history,
                   alert_history, alert_file, sent, report_file>>

\* The configured threshold of a metric with its Python type
ConfiguredThreshold(m) ==
    IF m = "Response Time" THEN PyInt(ThresholdOf(m)) ELSE PyFloat(ThresholdOf(m))

\* check_threshold_alert opens an alert, and send_email_alert never returns:
\* smtplib.SMTP(server, port) is given no timeout, and the server accepts the
\* connection and sends nothing
SmtpNeverAnswers ==
    /\ env.config.email
    /\ \E m \in ThresholdMetrics :
          /\ pc = PcOf(m)
          /\ LET st == check_threshold_alert(State, m, Checked(m), ConfiguredThreshold(m),
                                             CategoryOf(m), now)
             IN  /\ Len(st.sent) > Len(sent)
                 /\ Becomes(st)
    /\ result' = [call |-> "send_email_alert", at |-> pc]
    /\ pc' = "blocked"
    /\ UNCHANGED <<env, loaded, running, now, ticks, system_metrics, app_metrics,
                   system_metrics_history, app_metrics_history, alert_file, report_file>>

\* Where the loop can stand when the interrupt arrives
LoopPositions ==
    {"collect", "cpu", "memory", "disk", "response", "error", "anomalies", "predictive",
     "save", "sleep", "except", "blocked"}

\* start_monitoring: KeyboardInterrupt leaves asyncio.run
Interrupt ==
    /\ pc \in LoopPositions
    /\ running
    /\ pc' = "stop"
    /\ result' = [call |-> "KeyboardInterrupt", at |-> pc]
    /\ UNCHANGED <<env, loaded, running, now, ticks, system_metrics, app_metrics,
                   system_metrics_history, app_metrics_history, data_history,
                   alert_history, alert_file, sent, report_file>>

\* stop_monitoring: running = False, then save_alert_history()
Flush ==
    /\ pc = "stop"
    /\ running' = FALSE
    /\ \E outcome \in SaveOutcomes :
          /\ alert_file' = save_alert_history(alert_file, alert_history, outcome)
          /\ result' = [call |-> "stop_monitoring", at |-> result.at,
                        save |-> save_alert_history_call(outcome)]
    /\ pc' = "flushed"
    /\ UNCHANGED <<env, loaded, now, ticks, system_metrics, app_metrics,
                   system_metrics_history, app_metrics_history, data_history,
                   alert_history, sent, report_file>>

\* stop_monitoring: the final report is generated and written; the write is not
\* guarded
FinalReport ==
    /\ pc = "flushed"
    /\ \/ /\ report_file' = <<generate_performance_report(
                                 system_metrics_history, app_metrics_history,
                                 alert_history, now)>>
          /\ pc' = "stopped"
       \/ /\ report_file' = report_file
          /\ pc' = "failed"
    /\ UNCHANGED <<env, result, loaded, running, now, ticks, system_metrics, app_metrics,
                   system_metrics_history, app_metrics_history, data_history,
                   alert_history, alert_file, sent>>

\* The steps of the program
LoopProgress ==
    \/ StartLoop
    \/ LoopCollect
    \/ CollectRaises
    \/ CheckCpu
    \/ CheckMemory
    \/ CheckDisk
    \/ CheckResponse
    \/ CheckError
    \/ SmtpNeverAnswers
    \/ DetectAnomalies
    \/ PredictiveAlerts
    \/ PeriodicSave
    \/ Wake
    \/ Except
    \/ Flush
    \/ FinalReport

LoopNext == LoopProgress \/ Interrupt

\* The positions of the loop and of the shutdown
Positions ==
    LoopPositions \cup {"start", "stop", "flushed", "stopped", "failed"}

\* The program has a statement to execute: every position has one, except the
\* call that waits for the server, the two ends of stop_monitoring, and the
\* collection once the ticks of the behaviour are used up
Runnable ==
    \/ pc \in Positions \ {"collect", "blocked", "stopped", "failed"}
    \/ pc = "collect" /\ running /\ ticks < MaxCycles

\* The program moves on from where it stands. Every step of LoopNext changes
\* pc, and LoopProgress is enabled exactly where Runnable holds, so weak
\* fairness of Advance is weak fairness of LoopProgress.
Advance == Runnable /\ pc' \in Positions \ {pc}

\* The interpreter executes the statement the program stands at; nothing makes
\* the interrupt arrive, and nothing makes a silent server answer
LoopSpec == LoopInit /\ [][LoopNext]_vars /\ WF_pc(Advance)

\* C21: no error raised inside a cycle ends the loop. A step that raises out
\* of the collection or of the evaluation goes to the loop's handler and
\* leaves running as it is; the handler logs the error and goes to the sleep,
\* unless the interrupt arrives first; and from the handler the loop comes to
\* the collection of the next tick with running still true, or is interrupted.
C21_RaisingStep ==
    (result' # result /\ result'.call \in {"collect_system_metrics", "analyze_metrics"})
        => (pc' = "except" /\ running' = running /\ running)

C21_HandledStep ==
    pc = "except"
        => \/ /\ pc' = "sleep"
              /\ running' /\ running
              /\ result'.logged = <<"Error in monitoring loop">>
           \/ /\ pc' = "stop"
              /\ result'.call = "KeyboardInterrupt"

C21_ErrorDoesNotEndLoop ==
    /\ [][C21_RaisingStep /\ C21_HandledStep]_vars
    /\ (pc = "except") ~> ((pc = "collect" /\ running) \/ pc = "stop")

\* The second tick is being evaluated after the evaluation of the first one
\* raised: the infinite response time is in its window, and the error rate of
\* that tick was never recorded
C21_Witness ==
    /\ pc = "cpu"
    /\ running
    /\ ticks = 2
    /\ "error_rate" \in DOMAIN data_history
    /\ NonFinite(data_history["response_time_ms"])
    /\ Len(data_history["error_rate"]) < Len(data_history["cpu_percent"])

\* C22: a non-finite sample is skipped per metric. In the tick that collected
\* an infinite response time, the threshold check of the response time opens
\* no alert, resolves none and sends nothing, and the anomaly detection
\* records nothing for the response time while it records the error rate of
\* the same tick.
C22_ThresholdSkipped ==
    (pc = "response" /\ app_metrics.response_time_ms = Inf)
        => (alert_history' = alert_history /\ sent' = sent)

C22_AnomalySkipped ==
    (pc = "anomalies" /\ app_metrics.response_time_ms = Inf /\ pc' # "stop"
        /\ "response_time_ms" \in DOMAIN data_history)
        => /\ data_history'["response_time_ms"] = data_history["response_time_ms"]
           /\ data_history'["error_rate"] =
                 LastN(Append(data_history["error_rate"], app_metrics.error_rate),
                       window_size)

C22_NonFiniteSkipped == [][C22_ThresholdSkipped /\ C22_AnomalySkipped]_vars

\* C23: on shutdown the current cycle is not abandoned half-way: the interrupt
\* takes effect only between two cycles (at the sleep, at the loop test, or in
\* the handler of a cycle that had already failed); then the alert log is
\* flushed, and only after the flush the final report is written; and after a
\* shutdown whose flush and report both succeeded, the persisted log, read
\* back, is the in-memory log.
BetweenCycles == {"sleep", "collect", "except"}

ShuttingDown == pc \in {"stop", "flushed", "stopped", "failed"}

C23_CycleCompleted == ShuttingDown => result.at \in BetweenCycles

C23_FlushThenReportStep ==
    /\ (alert_file' # alert_file /\ ShuttingDown) => (pc = "stop" /\ pc' = "flushed")
    /\ report_file' # report_file => (pc = "flushed" /\ pc' = "stopped")

C23_PersistedIsMemory ==
    (pc = "stopped" /\ result.save.outcome = "written")
        => load_alert_history(alert_file) = alert_history

C23_OrderlyShutdown ==
    /\ []C23_CycleCompleted
    /\ [][C23_FlushThenReportStep]_vars
    /\ []C23_PersistedIsMemory

\* C24: every tick eventually reaches its sleep, even when an external target
\* never answers: from every position inside a cycle the loop comes to the
\* sleep, unless the monitor is shut down first.
InCycle ==
    pc \in {"cpu", "memory", "disk", "response", "error", "anomalies", "predictive",
            "save", "except", "blocked"}

C24_TickReachesSleep == InCycle ~> (pc = "sleep" \/ ShuttingDown)

====
